---- MODULE Spec2Model ----
(***************************************************************************)
(* Traffic / power-grid coupling of the SUMO x PyPSA prototype.            *)
(*                                                                         *)
(* The components are modelled over one state, each with its own          *)
(* specification:                                                          *)
(*   SpecGrid       EnhancedSUMOPyPSAIntegration (SUMOxPyPSA/              *)
(*                  enhanced_pypsa_integration.py), its public operations  *)
(*   SpecThreshold  its run_power_flow_analysis over fine-grained loadings *)
(*   SpecLoop       the simulation loop of SUMOxPyPSA/app.py around it     *)
(*   SpecNYC        NYCPowerNetworkSimple and TrafficPowerCoupler          *)
(*   SpecInt        SUMOPyPSAIntegration (sumo_pypsa_integration.py)       *)
(*   SpecDemand     its update_power_demand with optimization and feedback *)
(*   SpecCycles     set_realistic_traffic_light_cycles (app_integrated.py) *)
(*   SpecApp        the Socket.IO handlers and the simulation thread       *)
(*                                                                         *)
(* Floating-point quantities are fixed-point integers.  A power of the     *)
(* enhanced integration is the code's number times 10^6, a power of the    *)
(* NYC network is in kilowatts, a power of update_power_demand is in       *)
(* watts, a line loading is in hundredths; a product                       *)
(* with a decimal factor is the integer product divided (\div) by the      *)
(* factor's scale.                                                         *)
(***************************************************************************)
EXTENDS Integers, Sequences, FiniteSets, TLC

(***************************************************************************)
(* Bounds of the model                                                     *)
(***************************************************************************)
MaxLoading == 120
MaxUpdates == 2
MaxAnalyses == 1
MaxHistory == 2
MaxResponses == 1
MaxNYCCalls == 4
MaxFeedbacks == 2
MaxLoopSteps == 200
MaxThreads == 2
MaxDemandUpdates == 2
MaxCycleDuration == 40

(***************************************************************************)
(* Generic helpers                                                         *)
(***************************************************************************)
Min(a, b) == IF a <= b THEN a ELSE b

Max(a, b) == IF a >= b THEN a ELSE b

RECURSIVE SumSeq(_)
SumSeq(s) == IF s = << >> THEN 0 ELSE Head(s) + SumSeq(Tail(s))

RECURSIVE Count(_, _)
Count(s, c) == IF s = << >> THEN 0
               ELSE (IF Head(s) = c THEN 1 ELSE 0) + Count(Tail(s), c)

Last(s) == s[Len(s)]

None == "None"

(***************************************************************************)
(* SUMOxPyPSA/config.py                                                    *)
(***************************************************************************)
Zones == {"DTLA", "Vernon", "Harbor", "LAX"}

\* TRAFFIC_LIGHT_POWER, per bulb, as configured
TRAFFIC_LIGHT_POWER ==
    [green  |-> [led |-> 120, halogen |-> 350],
     yellow |-> [led |-> 100, halogen |-> 300],
     red    |-> [led |-> 80,  halogen |-> 250]]

\* STREET_LIGHT_POWER: led_per_km (15) times 1000, hours, dimming factor in
\* tenths
STREET_LIGHT_POWER ==
    [led_per_km |-> 15000, dawn |-> 6, dusk |-> 18, dimming_factor |-> 3]

\* EV_CHARGING_POWER: the power levels (350, 19.2, 1.4) times 1000;
\* efficiency in tenths
EV_CHARGING_POWER ==
    [level_3_dc |-> 350000, level_2_ac |-> 19200, level_1_ac |-> 1400,
     efficiency |-> 9]

\* CHARGING_STATIONS["losangeles"], in the order of the list
CHARGING_STATIONS ==
    << [id |-> "CS_DTLA_1", capacity |-> 20, type |-> "level_2_ac"],
       [id |-> "CS_DTLA_2", capacity |-> 10, type |-> "level_3_dc"] >>

StationIds == {CHARGING_STATIONS[i].id : i \in DOMAIN CHARGING_STATIONS}

PYPSA_UPDATE_FREQUENCY == 100

(***************************************************************************)
(* Inputs of the enhanced integration                                      *)
(***************************************************************************)
TlIds == {"tl_a", "tl_b"}

\* signal strings as SUMO reports them
TlStates == { <<"G", "G", "r", "r">>, <<"y", "r">> }

\* the traffic_lights argument: a list of {id, state} with distinct ids
TrafficLightInputs ==
    { << [id |-> "tl_a", state |-> <<"y", "r">>] >>,
      << [id |-> "tl_b", state |-> <<"G", "G", "r", "r">>],
         [id |-> "tl_a", state |-> <<"G", "G", "r", "r">>] >> }

\* len(vehicles)
VehicleCounts == {10, 1200}

\* np.random.poisson(2), one draw per station
ArrivalDraws ==
    { [sid \in StationIds |-> IF sid = "CS_DTLA_1" THEN 3 ELSE 0],
      [sid \in StationIds |-> IF sid = "CS_DTLA_1" THEN 25 ELSE 12] }

\* max_line_loading in hundredths: the values on both sides of every
\* multiple of 0.05 up to the bound, and one value per grid state
Loadings == {l \in 0..MaxLoading : l % 5 \in {0, 4}}

CoarseLoadings == {20, 75, 90, MaxLoading}

(***************************************************************************)
(* State                                                                   *)
(***************************************************************************)
VARIABLES
    \* EnhancedSUMOPyPSAIntegration
    grid_state,          \* self.grid_state (GridState value)
    p_set,               \* self.network.loads p_set, by zone, times 10^6
    traffic_lights,      \* self.traffic_lights, in insertion order
    charging_stations,   \* self.charging_stations, by station id
    congestion_history,  \* self.congestion_history
    current_demand,      \* self.current_demand
    simulation_time,     \* self.simulation_time
    grid_analysis,       \* the value returned by run_power_flow_analysis
    last_call,           \* the operation of the integration that ran last
    responses_applied,   \* number of apply_demand_response calls so far
    \* SUMO, as seen through traci.trafficlight
    tl_signal,           \* getRedYellowGreenState, by traffic light
    tl_program,          \* getAllProgramLogics()[0].phases, by traffic light
    \* NYCPowerNetworkSimple (powers in kW)
    current_hour,        \* self.current_hour
    generators,          \* current_output, by generator
    traffic_light_loads, \* current_mw, by area
    street_light_loads,  \* current_mw, by area
    ev_charging_loads,   \* current_mw, by area
    total_generation,    \* self.total_generation
    total_load,          \* self.total_load
    lines,               \* capacity_mw and current_flow, by line
    \* TrafficPowerCoupler
    traffic_density_by_area,  \* self.traffic_density_by_area
    power_events,        \* the types of the events in self.power_events
    nyc_call,            \* the operation of network or coupler that ran last
    nyc_calls,           \* number of calls made to network and coupler
    \* SUMOPyPSAIntegration
    grid_congestion_level,  \* self.grid_congestion_level, hundredths
    power_available,     \* charging_stations[id]["power_available"], kW
    opt_result,          \* the value returned by run_pypsa_optimization
    feedback_log,        \* what each apply_grid_feedback_to_traffic triggered
    int_call,            \* the operation of the integration that ran last
    \* the simulation loop of SUMOxPyPSA/app.py
    loop_pc,             \* where the loop stands: step, analysis, respond, ended
    step_counter,
    power_flow_counter,
    demand_response_active,
    last_grid_state,
    stats_grid_state,    \* simulation_stats['grid_state']
    grid_state_changes,  \* the 'grid_state_change' events emitted so far
    \* app_integrated.py: traffic_light_cycles, by traffic light
    traffic_light_cycles,
    \* SUMOPyPSAIntegration.update_power_demand, powers in W
    current_timestep,
    ev_vehicles,          \* the vehicles marked as electric so far
    vehicles_charging,    \* by station
    ev_power_by_station,  \* the charging power computed for each station
    load_p_set,           \* p_set of the load at each bus
    power_demand_history,
    \* the Socket.IO handlers and simulation threads of SUMOxPyPSA/app.py
    simulation_running,
    stop_event,          \* stop_event.is_set()
    simulation_thread,   \* the thread started last, 0 for None
    traci_loaded,        \* traci.isLoaded(): a SUMO connection is open
    thread_pc,           \* where each sumo_simulation thread stands
    thread_city,         \* the city each thread was started with
    CURRENT_CITY,
    restarts_pending,    \* restart handlers past their join, before the start
    app_events,          \* the events emitted to the client so far
    stopped              \* a stop_simulation was handled while a simulation
                         \* was running and no start or restart since

gridVars == << grid_state, p_set, traffic_lights, charging_stations,
               congestion_history, current_demand, simulation_time,
               grid_analysis, last_call, responses_applied >>

sumoVars == << tl_signal, tl_program >>

nycVars == << current_hour, generators, traffic_light_loads,
              street_light_loads, ev_charging_loads, total_generation,
              total_load, lines, traffic_density_by_area, power_events,
              nyc_call, nyc_calls >>

intVars == << grid_congestion_level, power_available, opt_result,
              feedback_log, int_call >>

demandVars == << current_timestep, ev_vehicles, vehicles_charging,
                 ev_power_by_station, load_p_set, power_demand_history >>

loopVars == << loop_pc, step_counter, power_flow_counter,
               demand_response_active, last_grid_state, stats_grid_state,
               grid_state_changes >>

appVars == << simulation_running, stop_event, simulation_thread, traci_loaded,
              thread_pc, thread_city, CURRENT_CITY, restarts_pending,
              app_events, stopped >>

vars == << gridVars, sumoVars, nycVars, intVars, demandVars, loopVars,
          appVars, traffic_light_cycles >>

(***************************************************************************)
(* EnhancedSUMOPyPSAIntegration                                            *)
(***************************************************************************)
\* _add_base_loads: p_set of Load_<zone> (200, 150, 100, 120) times 10^6
base_loads == [z \in Zones |->
                 CASE z = "DTLA"   -> 200000000
                   [] z = "Vernon" -> 150000000
                   [] z = "Harbor" -> 100000000
                   [] z = "LAX"    -> 120000000]

\* zone_factors of _update_pypsa_loads, in hundredths
zone_factors == [z \in Zones |->
                   CASE z = "DTLA"   -> 35
                     [] z = "Vernon" -> 25
                     [] z = "Harbor" -> 15
                     [] z = "LAX"    -> 25]

\* str.lower() on one signal character
Lower(c) == CASE c = "G" -> "g"
              [] c = "Y" -> "y"
              [] c = "R" -> "r"
              [] OTHER   -> c

LowerStr(s) == [i \in DOMAIN s |-> Lower(s[i])]

\* 70% LED, 30% halogen: led * 0.7 + halogen * 0.3
BulbPower(colour) ==
    (TRAFFIC_LIGHT_POWER[colour].led * 7
       + TRAFFIC_LIGHT_POWER[colour].halogen * 3) \div 10

\* power factor applied to the traffic lights, in tenths
TlPowerFactor(gs) ==
    IF gs = "stressed" THEN 8
    ELSE IF gs = "critical" THEN 6
    ELSE 10

\* tl_power of one traffic light, in tenths
OneTlPower(state, gs) ==
    LET st == LowerStr(state)
        green_power  == Count(st, "g") * BulbPower("green")
        yellow_power == Count(st, "y") * BulbPower("yellow")
        red_power    == Count(st, "r") * BulbPower("red")
    IN (green_power + yellow_power + red_power) * TlPowerFactor(gs)

\* self.traffic_lights[tl_id] = {...}: a dict keeps the position of a key
\* it already holds and appends a new one
RECURSIVE DictPut(_, _)
DictPut(d, e) ==
    IF d = << >> THEN << e >>
    ELSE IF Head(d).id = e.id THEN << e >> \o Tail(d)
    ELSE << Head(d) >> \o DictPut(Tail(d), e)

RECURSIVE TlEntries(_, _, _)
TlEntries(tls, gs, d) ==
    IF tls = << >> THEN d
    ELSE TlEntries(Tail(tls), gs,
                   DictPut(d, [id      |-> Head(tls).id,
                               power   |-> OneTlPower(Head(tls).state, gs),
                               state   |-> LowerStr(Head(tls).state),
                               dimming |-> TlPowerFactor(gs)]))

\* _calculate_traffic_light_power_realistic: the returned power,
\* total_power / 1000 (tenths / 10 / 1000 * 10^6)
_calculate_traffic_light_power_realistic(tls, gs) ==
    SumSeq([i \in DOMAIN tls |-> OneTlPower(tls[i].state, gs)]) * 100

\* time_of_day in 1/36000 hour: (12 + simulation_time * 0.1 / 3600) % 24
TimeOfDay(st) == (12 * 36000 + st) % (24 * 36000)

\* _calculate_street_lighting_adaptive
_calculate_street_lighting_adaptive(nVehicles, gs, st) ==
    LET network_length_km == 50
        night == \/ TimeOfDay(st) < STREET_LIGHT_POWER.dawn * 36000
                 \/ TimeOfDay(st) > STREET_LIGHT_POWER.dusk * 36000
        base_power == IF night
                      THEN network_length_km * STREET_LIGHT_POWER.led_per_km
                      ELSE network_length_km * 2000
        \* traffic_density < 5 and < 20 vehicles per km
        dimming10 == IF ~night THEN 10
                     ELSE IF nVehicles < 5 * network_length_km
                          THEN STREET_LIGHT_POWER.dimming_factor
                     ELSE IF nVehicles < 20 * network_length_km THEN 6
                     ELSE 10
        dimming100 == IF gs = "critical" THEN dimming10 * 5
                      ELSE IF gs = "stressed" THEN dimming10 * 7
                      ELSE dimming10 * 10
    IN (base_power * dimming100) \div 100

\* power_per_vehicle of a station
PowerPerVehicle(station, gs) ==
    IF gs = "normal"
    THEN IF station.type = "level_3_dc" THEN EV_CHARGING_POWER.level_3_dc
         ELSE EV_CHARGING_POWER.level_2_ac
    ELSE IF gs = "stressed"
    THEN Min(EV_CHARGING_POWER.level_2_ac, EV_CHARGING_POWER[station.type])
    ELSE EV_CHARGING_POWER.level_1_ac

StationPower_capped(station, gs, arr, cs) ==
    LET vehicles_at_station == Min(arr[station.id], station.capacity)
        rate == IF cs[station.id].tracked /\ cs[station.id].max_power >= 0
                THEN Min(PowerPerVehicle(station, gs), cs[station.id].max_power)
                ELSE PowerPerVehicle(station, gs)
    IN (vehicles_at_station * rate * EV_CHARGING_POWER.efficiency) \div 10

\* power of one station: min(poisson draw, capacity) vehicles
StationPower(station, gs, arr, cs) ==
    LET vehicles_at_station == Min(arr[station.id], station.capacity)
    IN (vehicles_at_station * PowerPerVehicle(station, gs)
          * EV_CHARGING_POWER.efficiency) \div 10

\* _calculate_ev_charging_smart: the returned power
_calculate_ev_charging_smart(gs, arr, cs) ==
    SumSeq([i \in DOMAIN CHARGING_STATIONS |->
              StationPower(CHARGING_STATIONS[i], gs, arr, cs)])

NoStation == [tracked |-> FALSE, vehicles_charging |-> 0,
              power_consumption |-> 0, charging_rate |-> 0, max_power |-> -1]

\* _calculate_ev_charging_smart: the station status it stores
StationsAfterCharging(gs, arr, cs) ==
    [sid \in StationIds |->
        LET station == CHOOSE s \in {CHARGING_STATIONS[i] :
                                       i \in DOMAIN CHARGING_STATIONS} :
                           s.id = sid
            vehicles_at_station == Min(arr[sid], station.capacity)
        IN IF vehicles_at_station > 0
           THEN [cs[sid] EXCEPT
                   !.tracked = TRUE,
                   !.vehicles_charging = vehicles_at_station,
                   !.power_consumption = StationPower(station, gs, arr, cs),
                   !.charging_rate = PowerPerVehicle(station, gs)]
           ELSE cs[sid]]

\* _update_pypsa_loads
_update_pypsa_loads(loads, total) ==
    [z \in Zones |->
        LET base_load    == loads[z]
            traffic_load == (total * zone_factors[z]) \div 100
        IN base_load + traffic_load]

NoDemand == [traffic_lights |-> -1, street_lights |-> -1,
             ev_charging |-> -1, total |-> -1]

update_traffic_infrastructure(tls, nVehicles, arr) ==
    /\ LET st          == simulation_time + 1
           tl_power    == _calculate_traffic_light_power_realistic(tls, grid_state)
           street_power == _calculate_street_lighting_adaptive(nVehicles, grid_state, st)
           ev_power    == _calculate_ev_charging_smart(grid_state, arr, charging_stations)
           total_power == tl_power + street_power + ev_power
           demand      == [traffic_lights |-> tl_power,
                           street_lights  |-> street_power,
                           ev_charging    |-> ev_power,
                           total          |-> total_power]
       IN /\ simulation_time' = st
          /\ traffic_lights' = TlEntries(tls, grid_state, traffic_lights)
          /\ charging_stations' =
                 StationsAfterCharging(grid_state, arr, charging_stations)
          /\ current_demand' = demand
          /\ p_set' = _update_pypsa_loads(p_set, demand.total)
          /\ last_call' = "update_traffic_infrastructure"
    /\ UNCHANGED << grid_state, congestion_history, grid_analysis,
                    responses_applied, sumoVars >>

GridStateFor_inclusive(max_loading) ==
    IF max_loading <= 70 THEN "normal"
    ELSE IF max_loading <= 85 THEN "stressed"
    ELSE IF max_loading <= 95 THEN "critical"
    ELSE "blackout"

\* _update_grid_state: the state chosen for a maximum line loading (hundredths)
GridStateFor(max_loading) ==
    IF max_loading < 70 THEN "normal"
    ELSE IF max_loading < 85 THEN "stressed"
    ELSE IF max_loading < 95 THEN "critical"
    ELSE "blackout"

DictKeys(d) == [i \in DOMAIN d |-> d[i].id]

\* index of the first entry of d with the highest power
FirstMax(d) ==
    CHOOSE i \in DOMAIN d :
        /\ \A j \in DOMAIN d : d[j].power <= d[i].power
        /\ \A j \in DOMAIN d : d[j].power = d[i].power => i <= j

Without(d, i) == [j \in 1..(Len(d) - 1) |-> IF j < i THEN d[j] ELSE d[j + 1]]

\* sorted(..., key=power, reverse=True)[:k], a stable sort
RECURSIVE TopByPower(_, _)
TopByPower(d, k) ==
    IF k = 0 \/ d = << >> THEN << >>
    ELSE << d[FirstMax(d)].id >> \o TopByPower(Without(d, FirstMax(d)), k - 1)

_identify_critical_intersections(tl) ==
    TopByPower(tl, Max(1, Len(tl) \div 5))

NoResponse == [traffic_light_mode |-> None, street_light_dimming |-> 0,
               ev_charging_limit |-> None, affected_intersections |-> << >>]

_generate_traffic_response_emergency(gs, tl) ==
    IF gs = "normal"
    THEN [traffic_light_mode |-> "normal", street_light_dimming |-> 100,
          ev_charging_limit |-> "unlimited", affected_intersections |-> << >>]
    ELSE IF gs = "stressed"
    THEN [traffic_light_mode |-> "eco", street_light_dimming |-> 80,
          ev_charging_limit |-> "level_2_max", affected_intersections |-> << >>]
    ELSE [traffic_light_mode |-> "emergency", street_light_dimming |-> 50,
          ev_charging_limit |-> "emergency_only",
          affected_intersections |-> _identify_critical_intersections(tl)]

\* street_light_dimming is in hundredths
_generate_traffic_response(gs, tl) ==
    IF gs = "normal"
    THEN [traffic_light_mode |-> "normal", street_light_dimming |-> 100,
          ev_charging_limit |-> "unlimited", affected_intersections |-> << >>]
    ELSE IF gs = "stressed"
    THEN [traffic_light_mode |-> "eco", street_light_dimming |-> 80,
          ev_charging_limit |-> "level_2_max", affected_intersections |-> << >>]
    ELSE IF gs = "critical"
    THEN [traffic_light_mode |-> "emergency", street_light_dimming |-> 50,
          ev_charging_limit |-> "emergency_only",
          affected_intersections |-> _identify_critical_intersections(tl)]
    ELSE [traffic_light_mode |-> "flashing_red", street_light_dimming |-> 0,
          ev_charging_limit |-> "none", affected_intersections |-> DictKeys(tl)]

\* what run_power_flow_analysis returns from its except branch
ErrorResult == [status |-> "error", grid_state |-> "normal",
                metrics |-> << >>, response |-> NoResponse]

\* where the PyPSA calls raise: nowhere, in set_snapshots or lopf, or in the
\* reading of the results by _analyze_grid_state
Raises == {"none", "solver", "analysis"}

\* `outcome` is the maximum line loading the solved network shows
run_power_flow_analysis(raises, outcome) ==
    /\ IF raises # "none"
       THEN /\ grid_analysis' = ErrorResult
            /\ UNCHANGED << grid_state, congestion_history >>
       ELSE /\ grid_state' = GridStateFor(outcome)
            /\ congestion_history' =
                   Append(congestion_history,
                          [state |-> GridStateFor(outcome), loading |-> outcome])
            /\ grid_analysis' =
                   [status   |-> "success",
                    grid_state |-> GridStateFor(outcome),
                    metrics  |-> [max_line_loading |-> outcome],
                    response |-> _generate_traffic_response(GridStateFor(outcome),
                                                            traffic_lights),
                    congestion_level |-> outcome]
    /\ last_call' = "run_power_flow_analysis"
    /\ UNCHANGED << p_set, traffic_lights, charging_stations, current_demand,
                    simulation_time, responses_applied, sumoVars >>

\* traci raises for the lights in `failing`; each _apply_* loop runs inside
\* one try block, so the first failing light ends the loop
RECURSIVE EcoLoop(_, _, _)
EcoLoop(keys, failing, prog) ==
    IF keys = << >> \/ Head(keys) \in failing THEN prog
    ELSE EcoLoop(Tail(keys), failing,
                 [prog EXCEPT ![Head(keys)] =
                    [p \in DOMAIN @ |->
                       [@[p] EXCEPT !.duration = (@ * 8) \div 10]]])

\* _apply_eco_traffic_lights: phase.duration = int(phase.duration * 0.8)
_apply_eco_traffic_lights(tl, failing, prog) ==
    EcoLoop(DictKeys(tl), failing, prog)

RECURSIVE SignalLoop(_, _, _, _)
SignalLoop(keys, failing, sig, c) ==
    IF keys = << >> \/ Head(keys) \in failing THEN sig
    ELSE SignalLoop(Tail(keys), failing,
                    [sig EXCEPT ![Head(keys)] = [i \in DOMAIN @ |-> c]], c)

\* _apply_emergency_traffic_lights: 'y' * len(state)
_apply_emergency_traffic_lights(affected_intersections, failing, sig) ==
    SignalLoop(affected_intersections, failing, sig, "y")

\* _apply_blackout_traffic_lights: 'r' * len(state)
_apply_blackout_traffic_lights(tl, failing, sig) ==
    SignalLoop(DictKeys(tl), failing, sig, "r")

\* _apply_street_light_dimming only logs
_apply_street_light_dimming(dimming_factor, cs) == cs

\* _apply_ev_charging_limits
_apply_ev_charging_limits(limit, cs) ==
    LET max_power == IF limit = "level_2_max" THEN EV_CHARGING_POWER.level_2_ac
                     ELSE IF limit = "emergency_only"
                          THEN EV_CHARGING_POWER.level_1_ac
                     ELSE IF limit = "none" THEN 0
                     ELSE EV_CHARGING_POWER.level_3_dc
    IN [sid \in StationIds |->
          IF cs[sid].tracked THEN [cs[sid] EXCEPT !.max_power = max_power]
          ELSE cs[sid]]

apply_demand_response(response, failing) ==
    /\ responses_applied' = responses_applied + 1
    /\ tl_program' =
          IF response.traffic_light_mode = "eco"
          THEN _apply_eco_traffic_lights(traffic_lights, failing, tl_program)
          ELSE tl_program
    /\ tl_signal' =
          IF response.traffic_light_mode = "emergency"
          THEN _apply_emergency_traffic_lights(response.affected_intersections,
                                               failing, tl_signal)
          ELSE IF response.traffic_light_mode = "flashing_red"
          THEN _apply_blackout_traffic_lights(traffic_lights, failing, tl_signal)
          ELSE tl_signal
    /\ charging_stations' =
          _apply_ev_charging_limits(
              response.ev_charging_limit,
              _apply_street_light_dimming(response.street_light_dimming,
                                          charging_stations))
    /\ last_call' = "apply_demand_response"
    /\ UNCHANGED << grid_state, p_set, traffic_lights, congestion_history,
                    current_demand, simulation_time, grid_analysis >>

\* the traffic-light program SUMO loads for every light
InitialProgram ==
    << [state |-> <<"G", "G", "r", "r">>, duration |-> 30],
       [state |-> <<"y", "y", "r", "r">>, duration |-> 4],
       [state |-> <<"r", "r", "G", "G">>, duration |-> 30],
       [state |-> <<"r", "r", "y", "y">>, duration |-> 4] >>

InitSumo ==
    /\ tl_signal = [t \in TlIds |-> InitialProgram[1].state]
    /\ tl_program = [t \in TlIds |-> InitialProgram]

InitGrid ==
    /\ InitSumo
    /\ grid_state = "normal"
    /\ p_set = base_loads
    /\ traffic_lights = << >>
    /\ charging_stations = [sid \in StationIds |-> NoStation]
    /\ congestion_history = << >>
    /\ current_demand = NoDemand
    /\ simulation_time = 0
    /\ grid_analysis = [status |-> None]
    /\ last_call = "__init__"
    /\ responses_applied = 0

(***************************************************************************)
(* NYCPowerNetworkSimple (pypsa_network_builder.py), powers in kW          *)
(***************************************************************************)
Areas == {"Manhattan", "Brooklyn", "Queens"}

DensityAreas == Areas \cup {"Bronx"}

GeneratorNames == {"Ravenswood_PowerPlant", "Astoria_PowerPlant",
                   "Hudson_Avenue_Plant", "Solar_Brooklyn"}

\* _add_generators: capacity_mw
capacity_mw == [g \in GeneratorNames |->
                  CASE g = "Ravenswood_PowerPlant" -> 2480000
                    [] g = "Astoria_PowerPlant"    -> 1310000
                    [] g = "Hudson_Avenue_Plant"   -> 420000
                    [] g = "Solar_Brooklyn"        -> 50000]

LineNames == {"TL_Manhattan_Brooklyn", "TL_Manhattan_Queens",
              "TL_Manhattan_Bronx", "TL_Brooklyn_Queens",
              "DL_Manhattan_Traffic", "DL_Brooklyn_Traffic",
              "DL_Queens_Traffic"}

\* _add_lines: capacity_mw, current_flow 0
BuiltLines ==
    [l \in LineNames |->
        [capacity_mw |-> CASE l = "TL_Manhattan_Brooklyn" -> 500000
                           [] l = "TL_Manhattan_Queens"   -> 600000
                           [] l = "TL_Manhattan_Bronx"    -> 400000
                           [] l = "TL_Brooklyn_Queens"    -> 450000
                           [] l = "DL_Manhattan_Traffic"  -> 150000
                           [] l = "DL_Brooklyn_Traffic"   -> 120000
                           [] l = "DL_Queens_Traffic"     -> 135000,
         current_flow |-> 0]]

\* _add_base_loads: the sequence of base_mw, in the order of the dict
BaseLoads == << 800000, 1200000, 600000, 500000, 400000 >>

\* _add_traffic_infrastructure: base_mw of TL_<area> and SL_<area>,
\* capacity_mw of EV_<area>
tl_base_mw == [a \in Areas |-> CASE a = "Manhattan" -> 2500
                                 [] a = "Brooklyn"  -> 1800
                                 [] a = "Queens"    -> 1500]

sl_base_mw == [a \in Areas |-> CASE a = "Manhattan" -> 5000
                                 [] a = "Brooklyn"  -> 3500
                                 [] a = "Queens"    -> 3000]

ev_capacity_mw == [a \in Areas |-> CASE a = "Manhattan" -> 3500
                                     [] a = "Brooklyn"  -> 2500
                                     [] a = "Queens"    -> 2000]

\* 'c' in state.lower()
HasColour(state, c) == \E i \in DOMAIN state : Lower(state[i]) = c

\* sum(1 for state in states if 'c' in state.lower())
RECURSIVE CountWith(_, _)
CountWith(states, c) ==
    IF states = << >> THEN 0
    ELSE (IF HasColour(Head(states), c) THEN 1 ELSE 0)
           + CountWith(Tail(states), c)

\* update_traffic_loads: EV charging and traffic-light loads from SUMO data
update_traffic_loads(vehicle_count, traffic_light_states) ==
    LET \* vehicle_count * 0.005 * 0.05 MW, in W
        total_ev_charging == vehicle_count * 250
        share == [a \in Areas |-> CASE a = "Manhattan" -> 5
                                    [] a = "Brooklyn"  -> 3
                                    [] a = "Queens"    -> 2]
        n == Max(Len(traffic_light_states), 1)
        green == CountWith(traffic_light_states, "g")
    IN /\ ev_charging_loads' =
             [a \in Areas |-> Min((total_ev_charging * share[a]) \div 10000,
                                  ev_capacity_mw[a])]
       \* base_mw * (1.0 + (1.0 - green_ratio) * 0.1)
       /\ traffic_light_loads' =
             [a \in Areas |-> (tl_base_mw[a] * (10 * n + (n - green)))
                                 \div (10 * n)]
       /\ nyc_call' = "update_traffic_loads"
       /\ UNCHANGED << current_hour, generators, street_light_loads,
                       total_generation, total_load, lines,
                       traffic_density_by_area, power_events >>

\* time-of-day factor of the base loads, in tenths
HourFactor(hour) ==
    IF 0 <= hour /\ hour < 6 THEN 6
    ELSE IF 6 <= hour /\ hour < 9 THEN 8
    ELSE IF 9 <= hour /\ hour < 17 THEN 9
    ELSE IF 17 <= hour /\ hour < 21 THEN 10
    ELSE 7

\* capacity_mw * sin((hour - 6) * pi / 12) for the hours 6..18, rounded to
\* the kW (at hour 18 the floating-point value is 6e-15 MW)
SolarTable == << 0, 12941, 25000, 35355, 43301, 48296, 50000,
                 48296, 43301, 35355, 25000, 12941, 0 >>

solar_output(hour) == SolarTable[hour - 6 + 1]

\* street lights on at night
StreetLightsAt(hour) ==
    [a \in Areas |-> IF hour < 6 \/ hour > 18 THEN sl_base_mw[a] ELSE 0]

SumOver(f) == SumSeq([i \in 1..3 |->
                        f[CASE i = 1 -> "Manhattan"
                            [] i = 2 -> "Brooklyn"
                            [] i = 3 -> "Queens"]])

GasOrder_by_bus ==
    << "Astoria_PowerPlant", "Ravenswood_PowerPlant", "Hudson_Avenue_Plant" >>

\* the order of the gas plants in the dispatch loop
GasOrder ==
    << "Ravenswood_PowerPlant", "Astoria_PowerPlant", "Hudson_Avenue_Plant" >>

GasOutput_full(gen_name, remaining_load) ==
    IF remaining_load > 0 THEN capacity_mw[gen_name] ELSE 0

\* current_output a gas plant is given in the dispatch loop
GasOutput(gen_name, remaining_load) ==
    IF remaining_load > 0 THEN Min(capacity_mw[gen_name], remaining_load)
    ELSE 0

\* the dispatch loop over the gas plants; d holds current_output by
\* generator, total_generation and remaining_load
RECURSIVE GasDispatch(_, _)
GasDispatch(order, d) ==
    IF order = << >> THEN d
    ELSE LET out == GasOutput(Head(order), d.remaining_load)
         IN GasDispatch(Tail(order),
               [generators       |-> [d.generators EXCEPT ![Head(order)] = out],
                total_generation |-> IF d.remaining_load > 0
                                     THEN d.total_generation + out
                                     ELSE d.total_generation,
                remaining_load   |-> IF d.remaining_load > 0
                                     THEN d.remaining_load - out
                                     ELSE d.remaining_load])

LineFlow_unclamped(load, capacity) == load \div 10

\* current_flow of a line: min(total_load * 0.1, capacity_mw)
LineFlow(load, capacity) == Min(load \div 10, capacity)

\* simulate_power_flow, from the loads tl, ev and the generator outputs gen
\* it finds
PowerFlow(hour, tl, ev, gen, ln) ==
    LET base  == SumSeq([i \in DOMAIN BaseLoads |->
                           (BaseLoads[i] * HourFactor(hour)) \div 10])
        sl    == StreetLightsAt(hour)
        load  == base + SumOver(tl) + SumOver(sl) + SumOver(ev)
        day   == 6 <= hour /\ hour <= 18
        solar == IF day THEN Min(solar_output(hour), load)
                 ELSE gen["Solar_Brooklyn"]
        d0    == [generators |-> [gen EXCEPT !["Solar_Brooklyn"] = solar],
                  total_generation |-> IF day THEN solar ELSE 0,
                  remaining_load   |-> IF day THEN load - solar ELSE load]
        d     == GasDispatch(GasOrder, d0)
    IN [street_light_loads |-> sl,
        total_load         |-> load,
        generators         |-> d.generators,
        total_generation   |-> d.total_generation,
        lines |-> [l \in LineNames |->
                     [ln[l] EXCEPT !.current_flow =
                         LineFlow(load, ln[l].capacity_mw)]]]

simulate_power_flow ==
    LET r == PowerFlow(current_hour, traffic_light_loads, ev_charging_loads,
                       generators, lines)
    IN /\ street_light_loads' = r.street_light_loads
       /\ total_load' = r.total_load
       /\ generators' = r.generators
       /\ total_generation' = r.total_generation
       /\ lines' = r.lines
       /\ nyc_call' = "simulate_power_flow"
       /\ UNCHANGED << current_hour, traffic_light_loads, ev_charging_loads,
                       traffic_density_by_area, power_events >>

advance_time ==
    /\ current_hour' = (current_hour + 1) % 24
    /\ nyc_call' = "advance_time"
    /\ UNCHANGED << generators, traffic_light_loads, street_light_loads,
                    ev_charging_loads, total_generation, total_load, lines,
                    traffic_density_by_area, power_events >>

\* test_network: network.current_hour = hour
set_current_hour(hour) ==
    /\ current_hour' = hour
    /\ nyc_call' = "set_current_hour"
    /\ UNCHANGED << generators, traffic_light_loads, street_light_loads,
                    ev_charging_loads, total_generation, total_load, lines,
                    traffic_density_by_area, power_events >>

\* the network as build_network leaves it
BuiltNetwork(ln) ==
    /\ current_hour = 0
    /\ generators = [g \in GeneratorNames |-> 0]
    /\ traffic_light_loads = tl_base_mw
    /\ street_light_loads = sl_base_mw
    /\ ev_charging_loads = [a \in Areas |-> 0]
    /\ total_generation = 0
    /\ total_load = 0
    /\ lines = ln

(***************************************************************************)
(* TrafficPowerCoupler (traffic_power_integration.py)                      *)
(***************************************************************************)
\* _update_power_loads: the traffic-light loads
CouplerTrafficLightLoads(states, density) ==
    LET n == Max(Len(states), 1)
        yellow_count == CountWith(states, "y")
        red_count    == CountWith(states, "r")
        \* control_factor = 1.0 + (yellow_count + red_count) / n * 0.2
        \* density_factor = min(2.0, 1.0 + density / 1000)
    IN [a \in Areas |->
          (tl_base_mw[a] * (10 * n + 2 * (yellow_count + red_count))
             * Min(2000, 1000 + density[a])) \div (10 * n * 1000)]

\* _update_ev_charging: density * 0.15 * share * 0.05 MW, at most the capacity
_update_ev_charging(density) ==
    [a \in Areas |->
        LET share == CASE a = "Manhattan" -> 10
                       [] a = "Brooklyn"  -> 8
                       [] a = "Queens"    -> 6
        IN Min((density[a] * 15 * share * 5) \div 100, ev_capacity_mw[a])]

\* _update_street_lighting: base_mw * base_factor * traffic_factor
_update_street_lighting(hour, density) ==
    [a \in Areas |->
        LET base_factor == IF hour < 6 \/ hour > 18 THEN 1 ELSE 0
            traffic_factor == Min(3000, 2000 + density[a])
        IN (sl_base_mw[a] * base_factor * traffic_factor) \div 2000]

\* _check_power_events: the types of the events
_check_power_events(ln, generation, load) ==
    {"line_overload" : l \in {k \in LineNames :
         ln[k].capacity_mw > 0
           /\ ln[k].current_flow * 100 > 90 * ln[k].capacity_mw}}
    \cup {"line_trip" : l \in {k \in LineNames :
         ln[k].capacity_mw > 0
           /\ ln[k].current_flow * 100 > 100 * ln[k].capacity_mw}}
    \cup (IF generation - load < 0 THEN {"generation_shortage"} ELSE {})

\* update_from_sumo; `density` is the number of vehicles of sumo_data inside
\* the boundaries of each area
update_from_sumo(density, states) ==
    LET tl == CouplerTrafficLightLoads(states, density)
        ev == _update_ev_charging(density)
        r  == PowerFlow(current_hour, tl, ev, generators, lines)
    IN /\ traffic_density_by_area' = density
       /\ traffic_light_loads' = tl
       /\ ev_charging_loads' = ev
       \* the loads _update_street_lighting sets are replaced by
       \* simulate_power_flow
       /\ street_light_loads' = r.street_light_loads
       /\ total_load' = r.total_load
       /\ generators' = r.generators
       /\ total_generation' = r.total_generation
       /\ lines' = r.lines
       /\ power_events' =
             _check_power_events(r.lines, r.total_generation, r.total_load)
       /\ nyc_call' = "update_from_sumo"
       /\ UNCHANGED current_hour

simulate_power_outage(area) ==
    /\ IF area = "Manhattan"
       THEN /\ traffic_light_loads' =
                  [traffic_light_loads EXCEPT !["Manhattan"] = 0]
            /\ street_light_loads' =
                  [street_light_loads EXCEPT !["Manhattan"] = 0]
       ELSE UNCHANGED << traffic_light_loads, street_light_loads >>
    /\ nyc_call' = "simulate_power_outage"
    /\ UNCHANGED << current_hour, generators, ev_charging_loads,
                    total_generation, total_load, lines,
                    traffic_density_by_area, power_events >>

InitNYC ==
    /\ BuiltNetwork(BuiltLines)
    /\ traffic_density_by_area = [a \in DensityAreas |-> 0]
    /\ power_events = {}
    /\ nyc_call = "build_network"
    /\ nyc_calls = 0

\* SUMO data handed to the network and the coupler
NYCVehicleCounts == {5000, 40000}

NYCTrafficLightStates ==
    { << >>,
      << <<"G", "G", "r", "r">>, <<"r", "r", "G", "G">> >>,
      << <<"y", "y", "r", "r">> >> }

NYCDensities ==
    { [a \in DensityAreas |-> IF a = "Manhattan" THEN 400 ELSE 0],
      [a \in DensityAreas |-> IF a = "Bronx" THEN 10 ELSE 6000] }

(***************************************************************************)
(* SUMOPyPSAIntegration (sumo_pypsa_integration.py, config.py), city       *)
(* "newyork" on its synthetic network                                      *)
(***************************************************************************)
fast_charge_power == 150

medium_charge_power == 50

\* CHARGING_STATIONS["newyork"]: capacity by station id
station_capacity ==
    [sid \in {"CS_West_1", "CS_West_2", "CS_West_3", "CS_West_4",
              "CS_West_5", "CS_West_6"} |->
        CASE sid = "CS_West_1" -> 10
          [] sid = "CS_West_2" -> 8
          [] sid = "CS_West_3" -> 8
          [] sid = "CS_West_4" -> 10
          [] sid = "CS_West_5" -> 6
          [] sid = "CS_West_6" -> 8]

\* _create_synthetic_network: Line_0..Line_2, s_nom 100
SyntheticLines == << "Line_0", "Line_1", "Line_2" >>

\* sum of p_nom: four generators of 100 MW and two solar generators of 30 MW
SyntheticGeneration == 4 * 100 + 2 * 30

\* sum of p_set: four loads of 20 MW
SyntheticLoad == 4 * 20

\* _initialize_charging_stations
_initialize_charging_stations ==
    [sid \in DOMAIN station_capacity |->
        fast_charge_power * station_capacity[sid]]

\* EV_CHARGING_POWER["slow"], 7.4 kW, in W
slow_charge_power == 7400

\* TRAFFIC_LIGHT_POWER of config.py (0.5, 0.4, 0.3 kW), in W
traffic_light_power == [green |-> 500, yellow |-> 400, red |-> 300]

\* the buses of the synthetic network of "newyork"
Buses == << "Jersey_City", "Newport", "Exchange_Place", "Liberty_State" >>

\* _find_nearest_bus for the position of each station
station_bus ==
    [sid \in DOMAIN station_capacity |->
        CASE sid = "CS_West_1" -> "Jersey_City"
          [] sid = "CS_West_2" -> "Newport"
          [] sid = "CS_West_3" -> "Liberty_State"
          [] sid = "CS_West_4" -> "Exchange_Place"
          [] sid = "CS_West_5" -> "Newport"
          [] sid = "CS_West_6" -> "Newport"]

\* _calculate_traffic_light_power: the sum over the lights, in W
_calculate_traffic_light_power(tls) ==
    SumSeq([i \in DOMAIN tls |->
        (Count(tls[i].state, "G") + Count(tls[i].state, "g"))
            * traffic_light_power.green
        + (Count(tls[i].state, "Y") + Count(tls[i].state, "y"))
            * traffic_light_power.yellow
        + (Count(tls[i].state, "R") + Count(tls[i].state, "r"))
            * traffic_light_power.red])

\* _calculate_street_lighting_power: per bus, with hour =
\* (time_step * 0.5 / 3600) % 24, in W
_calculate_street_lighting_power(time_step) ==
    LET hour7200 == time_step % (24 * 7200)
    IN IF hour7200 < 6 * 7200 \/ hour7200 > 18 * 7200 THEN 50000 ELSE 10000

\* list(self.ev_vehicles)[:n]; the vehicles are numbered in the order of
\* the list
FirstOf(evs, n) == {v \in evs : Cardinality({w \in evs : w < v}) < n}

\* the power added for the k-th vehicle found at a station of capacity c
ChargeStep(c, k) ==
    IF k <= c \div 3 THEN fast_charge_power * 1000
    ELSE IF k <= (2 * c) \div 3 THEN medium_charge_power * 1000
    ELSE slow_charge_power

\* charging_power of a station of capacity c with k vehicles at it
RECURSIVE ChargingPower(_, _)
ChargingPower(c, k) ==
    IF k = 0 THEN 0 ELSE ChargingPower(c, k - 1) + ChargeStep(c, k)

\* vehicles_at_station: the first `capacity` electric vehicles that are
\* among the current vehicles
VehiclesAtStation(sid, evs, vehicles) ==
    FirstOf(evs, station_capacity[sid]) \cap vehicles

\* _calculate_ev_charging_power; `vehicles` are the current vehicles whose
\* hash marks them as electric
_calculate_ev_charging_power(evs, vehicles) ==
    [sid \in DOMAIN station_capacity |->
        ChargingPower(station_capacity[sid],
                      Cardinality(VehiclesAtStation(sid, evs, vehicles)))]

StationsAt(bus) == {sid \in DOMAIN station_capacity : station_bus[sid] = bus}

RECURSIVE SumSet(_, _)
SumSet(f, S) ==
    IF S = {} THEN 0
    ELSE LET x == CHOOSE y \in S : TRUE IN f[x] + SumSet(f, S \ {x})

\* update_power_demand
update_power_demand(traffic_lights_arg, vehicles, time_step) ==
    LET tl_total == _calculate_traffic_light_power(traffic_lights_arg)
        street   == _calculate_street_lighting_power(time_step)
        evs      == ev_vehicles \cup vehicles
        ev       == _calculate_ev_charging_power(evs, vehicles)
        by_bus   == [i \in DOMAIN Buses |->
                       tl_total \div Len(Buses) + street
                         + SumSet(ev, StationsAt(Buses[i]))]
    IN /\ current_timestep' = time_step
       /\ ev_vehicles' = evs
       /\ vehicles_charging' =
             [sid \in DOMAIN station_capacity |->
                 VehiclesAtStation(sid, evs, vehicles)]
       /\ ev_power_by_station' = ev
       /\ load_p_set' = [i \in DOMAIN Buses |-> 20000000 + by_bus[i]]
       /\ power_demand_history' =
             Append(power_demand_history,
                    [timestep      |-> time_step,
                     total_demand  |-> SumSeq(by_bus),
                     tl_demand     |-> tl_total,
                     ev_demand     |-> SumSet(ev, DOMAIN station_capacity),
                     street_demand |-> street * Len(Buses)])
       /\ int_call' = "update_power_demand"
       /\ UNCHANGED << grid_congestion_level, power_available, opt_result,
                       feedback_log >>

\* where the PyPSA calls raise
Failures == {"none", "set_snapshots", "lopf", "lopf_and_pf"}

\* the except branch is taken when set_snapshots raises, or lopf raises and
\* the fallback pf raises as well
OptimizationFails(failure) == failure \in {"set_snapshots", "lopf_and_pf"}

\* [line for line, loading in line_loading.items() if loading > 0.95]
RECURSIVE Overloaded(_, _)
Overloaded(names, loading) ==
    IF names = << >> THEN << >>
    ELSE (IF loading[Head(names)] > 95 THEN << Head(names) >> ELSE << >>)
           \o Overloaded(Tail(names), loading)

RECURSIVE MaxLineLoading(_, _)
MaxLineLoading(names, loading) ==
    IF names = << >> THEN 0
    ELSE Max(loading[Head(names)], MaxLineLoading(Tail(names), loading))

\* run_pypsa_optimization; `loading` is the loading of each line the solved
\* network shows, in hundredths
run_pypsa_optimization(failure, loading) ==
    /\ IF OptimizationFails(failure)
       THEN /\ opt_result' = [operational |-> TRUE, congestion_level |-> 20,
                              overloaded_lines |-> << >>,
                              total_generation |-> 100, total_load |-> 80]
            /\ UNCHANGED grid_congestion_level
       ELSE LET max_loading == MaxLineLoading(SyntheticLines, loading)
                overloaded_lines == Overloaded(SyntheticLines, loading)
            IN /\ grid_congestion_level' = max_loading
               /\ opt_result' =
                     [operational |-> Len(overloaded_lines) = 0,
                      congestion_level |-> max_loading,
                      overloaded_lines |-> overloaded_lines,
                      total_generation |-> SyntheticGeneration,
                      total_load |-> SyntheticLoad,
                      line_loading |-> loading]
    /\ int_call' = "run_pypsa_optimization"
    /\ UNCHANGED << power_available, feedback_log >>

_adjust_ev_charging_low(congestion_level) ==
    [sid \in DOMAIN station_capacity |->
        IF congestion_level > 70
        THEN medium_charge_power * station_capacity[sid]
        ELSE IF congestion_level < 20
        THEN fast_charge_power * station_capacity[sid]
        ELSE ((fast_charge_power * 5 + medium_charge_power * 5)
                * station_capacity[sid]) \div 10]

\* _adjust_ev_charging: power_available of every station
_adjust_ev_charging(congestion_level) ==
    [sid \in DOMAIN station_capacity |->
        IF congestion_level > 70
        THEN medium_charge_power * station_capacity[sid]
        ELSE IF congestion_level < 30
        THEN fast_charge_power * station_capacity[sid]
        ELSE ((fast_charge_power * 5 + medium_charge_power * 5)
                * station_capacity[sid]) \div 10]

\* apply_grid_feedback_to_traffic; the log entry records whether
\* _implement_demand_response and _handle_power_outage were called
apply_grid_feedback_to_traffic(gs) ==
    /\ feedback_log' =
          Append(feedback_log,
                 [congestion_level |-> gs.congestion_level,
                  demand_response  |-> gs.congestion_level > 80,
                  power_outage     |-> ~gs.operational])
    /\ power_available' = _adjust_ev_charging(gs.congestion_level)
    /\ int_call' = "apply_grid_feedback_to_traffic"
    /\ UNCHANGED << grid_congestion_level, opt_result >>

InitInt ==
    /\ grid_congestion_level = 0
    /\ power_available = _initialize_charging_stations
    /\ opt_result = [status |-> None]
    /\ feedback_log = << >>
    /\ int_call = "initialize_pypsa_network"
    /\ current_timestep = 0
    /\ ev_vehicles = {}
    /\ vehicles_charging = [sid \in DOMAIN station_capacity |-> {}]
    /\ ev_power_by_station = [sid \in DOMAIN station_capacity |-> 0]
    /\ load_p_set = [i \in DOMAIN Buses |-> 20000000]
    /\ power_demand_history = << >>

\* line loadings of a solved network, around the thresholds 0.3, 0.7, 0.8
\* and 0.95
LineLoading(l0, l1, l2) ==
    [l \in {"Line_0", "Line_1", "Line_2"} |->
        CASE l = "Line_0" -> l0 [] l = "Line_1" -> l1 [] l = "Line_2" -> l2]

\* the electric vehicles among the current vehicles, and the arguments of
\* update_power_demand
IntVehicles == { {}, 1..4, 1..10 }

IntTrafficLights ==
    { << >>,
      << [id |-> "tl_a", state |-> <<"G", "G", "r", "r">>],
         [id |-> "tl_b", state |-> <<"y", "y", "r", "r">>] >> }

IntTimeSteps == {0, 50400}

IntLoadings ==
    { LineLoading(20, 29, 0), LineLoading(20, 30, 10), LineLoading(70, 20, 30),
      LineLoading(30, 71, 80), LineLoading(81, 20, 95),
      LineLoading(96, 81, 100) }

(***************************************************************************)
(* The simulation loop of sumo_simulation (SUMOxPyPSA/app.py), one step    *)
(* per call it makes to the integration                                    *)
(***************************************************************************)
\* what the loop reads from SUMO in an iteration
LoopTrafficLights ==
    << [id |-> "tl_b", state |-> <<"G", "G", "r", "r">>],
       [id |-> "tl_a", state |-> <<"G", "G", "r", "r">>] >>

LoopVehicles == 10

LoopArrivals == [sid \in StationIds |-> IF sid = "CS_DTLA_1" THEN 3 ELSE 0]

\* the head of an iteration up to the test of power_flow_counter: the loop
\* condition holds, SUMO steps, the demand is updated
LoopIteration ==
    /\ loop_pc = "step"
    /\ step_counter' = step_counter + 1
    /\ update_traffic_infrastructure(LoopTrafficLights, LoopVehicles,
                                     LoopArrivals)
    /\ IF power_flow_counter + 1 >= PYPSA_UPDATE_FREQUENCY
       THEN /\ power_flow_counter' = 0
            /\ loop_pc' = "analysis"
       ELSE /\ power_flow_counter' = power_flow_counter + 1
            /\ loop_pc' = "step"
    /\ UNCHANGED << demand_response_active, last_grid_state,
                    stats_grid_state, grid_state_changes >>

RespondsTo_any(analysis) ==
    analysis.response.traffic_light_mode # "normal"

\* `response and response.traffic_light_mode != 'normal'`, reached only
\* under status == 'success'
RespondsTo(analysis) ==
    /\ analysis.status = "success"
    /\ analysis.response.traffic_light_mode # None
    /\ analysis.response.traffic_light_mode # "normal"

\* the analysis of an iteration and what the loop does with its result up
\* to the call of apply_demand_response
LoopAnalysis(raises, outcome) ==
    /\ loop_pc = "analysis"
    /\ run_power_flow_analysis(raises, outcome)
    /\ IF grid_analysis'.status = "success"
       THEN LET new_grid_state == grid_analysis'.grid_state
            IN /\ stats_grid_state' = new_grid_state
               /\ IF new_grid_state # last_grid_state
                  THEN /\ last_grid_state' = new_grid_state
                       \* old_state is read after last_grid_state is assigned
                       /\ grid_state_changes' =
                             Append(grid_state_changes,
                                    [old_state |-> new_grid_state,
                                     new_state |-> new_grid_state,
                                     timestamp |-> step_counter])
                  ELSE UNCHANGED << last_grid_state, grid_state_changes >>
       ELSE UNCHANGED << stats_grid_state, last_grid_state,
                         grid_state_changes >>
    /\ IF RespondsTo(grid_analysis')
       THEN /\ demand_response_active' = TRUE
            /\ loop_pc' = "respond"
       ELSE /\ demand_response_active' =
                  IF grid_analysis'.status = "success"
                  THEN FALSE ELSE demand_response_active
            /\ loop_pc' = "step"
    /\ UNCHANGED << step_counter, power_flow_counter >>

LoopRespond(failing) ==
    /\ loop_pc = "respond"
    /\ apply_demand_response(grid_analysis.response, failing)
    /\ loop_pc' = "step"
    /\ UNCHANGED << step_counter, power_flow_counter, demand_response_active,
                    last_grid_state, stats_grid_state, grid_state_changes >>

\* getMinExpectedNumber() is 0 or stop_event is set
LoopExit ==
    /\ loop_pc = "step"
    /\ loop_pc' = "ended"
    /\ UNCHANGED << gridVars, sumoVars, step_counter, power_flow_counter,
                    demand_response_active, last_grid_state,
                    stats_grid_state, grid_state_changes >>

InitLoop ==
    /\ loop_pc = "step"
    /\ step_counter = 0
    /\ power_flow_counter = 0
    /\ demand_response_active = FALSE
    /\ last_grid_state = "normal"
    /\ stats_grid_state = "normal"
    /\ grid_state_changes = << >>

(***************************************************************************)
(* The Socket.IO handlers and the simulation thread of SUMOxPyPSA/app.py   *)
(* (async_mode 'threading': handlers and simulation threads interleave)    *)
(***************************************************************************)
Threads == 1..MaxThreads

CITY_CONFIGS == {"losangeles"}

\* the cities a client may name
Cities == {"losangeles", "atlantis"}

Unstarted == {t \in Threads : thread_pc[t] = "unstarted"}

\* threading.Thread(target=sumo_simulation, args=(city,)).start()
StartThread(t, city) ==
    /\ thread_pc' = [thread_pc EXCEPT ![t] = "begin"]
    /\ thread_city' = [thread_city EXCEPT ![t] = city]
    /\ simulation_thread' = t

\* sumo_simulation up to `simulation_running = True`; it returns at once for
\* a city without configuration
ThreadSetRunning(t) ==
    /\ thread_pc[t] = "begin"
    /\ IF thread_city[t] \notin CITY_CONFIGS
       THEN /\ thread_pc' = [thread_pc EXCEPT ![t] = "done"]
            /\ UNCHANGED simulation_running
       ELSE /\ simulation_running' = TRUE
            /\ thread_pc' = [thread_pc EXCEPT ![t] = "clear_stop"]
    /\ UNCHANGED << stop_event, simulation_thread, traci_loaded, thread_city,
                    CURRENT_CITY, restarts_pending, app_events, stopped >>

\* stop_event.clear()
ThreadClearStop(t) ==
    /\ thread_pc[t] = "clear_stop"
    /\ stop_event' = FALSE
    /\ thread_pc' = [thread_pc EXCEPT ![t] = "close_existing"]
    /\ UNCHANGED << simulation_running, simulation_thread, traci_loaded,
                    thread_city, CURRENT_CITY, restarts_pending, app_events,
                    stopped >>

\* if traci.isLoaded(): traci.close()
ThreadCloseExisting(t) ==
    /\ thread_pc[t] = "close_existing"
    /\ traci_loaded' = FALSE
    /\ thread_pc' = [thread_pc EXCEPT ![t] = "start_sumo"]
    /\ UNCHANGED << simulation_running, stop_event, simulation_thread,
                    thread_city, CURRENT_CITY, restarts_pending, app_events,
                    stopped >>

\* traci.start(sumo_cmd): raises when the connection is already active
ThreadStartSumo(t) ==
    /\ thread_pc[t] = "start_sumo"
    /\ IF traci_loaded
       THEN /\ thread_pc' = [thread_pc EXCEPT ![t] = "cleanup"]
            /\ UNCHANGED traci_loaded
       ELSE /\ traci_loaded' = TRUE
            /\ thread_pc' = [thread_pc EXCEPT ![t] = "loop"]
    /\ UNCHANGED << simulation_running, stop_event, simulation_thread,
                    thread_city, CURRENT_CITY, restarts_pending, app_events,
                    stopped >>

\* one evaluation of the while condition and, if it holds, one iteration;
\* `expected` is getMinExpectedNumber() > 0.  Without a connection the
\* traci call raises; when the condition fails traci.close() follows
ThreadLoop(t, expected) ==
    /\ thread_pc[t] = "loop"
    /\ IF ~traci_loaded
       THEN /\ thread_pc' = [thread_pc EXCEPT ![t] = "cleanup"]
            /\ UNCHANGED traci_loaded
       ELSE IF expected /\ ~stop_event
       THEN UNCHANGED << thread_pc, traci_loaded >>
       ELSE /\ traci_loaded' = FALSE
            /\ thread_pc' = [thread_pc EXCEPT ![t] = "cleanup"]
    /\ UNCHANGED << simulation_running, stop_event, simulation_thread,
                    thread_city, CURRENT_CITY, restarts_pending, app_events,
                    stopped >>

\* finally: close the SUMO connection, remove the temporary config, restore
\* the working directory
ThreadCleanup(t) ==
    /\ thread_pc[t] = "cleanup"
    /\ traci_loaded' = FALSE
    /\ thread_pc' = [thread_pc EXCEPT ![t] = "finish"]
    /\ UNCHANGED << simulation_running, stop_event, simulation_thread,
                    thread_city, CURRENT_CITY, restarts_pending, app_events,
                    stopped >>

\* finally: simulation_running = False, emit 'simulation_stopped'
ThreadFinish(t) ==
    /\ thread_pc[t] = "finish"
    /\ simulation_running' = FALSE
    /\ app_events' = app_events \cup {"simulation_stopped:ended"}
    /\ thread_pc' = [thread_pc EXCEPT ![t] = "done"]
    /\ UNCHANGED << stop_event, simulation_thread, traci_loaded, thread_city,
                    CURRENT_CITY, restarts_pending, stopped >>

\* handle_start_simulation; t is the thread it would start
handle_start_simulation(city, t) ==
    /\ IF city \notin CITY_CONFIGS
       THEN /\ app_events' = app_events \cup {"error:Invalid city"}
            /\ UNCHANGED << traci_loaded, thread_pc, thread_city,
                            simulation_thread, CURRENT_CITY >>
       ELSE IF simulation_running
       THEN /\ CURRENT_CITY' = city
            /\ app_events' =
                  app_events \cup {"error:Simulation already running"}
            /\ UNCHANGED << traci_loaded, thread_pc, thread_city,
                            simulation_thread >>
       ELSE /\ CURRENT_CITY' = city
            /\ traci_loaded' = FALSE
            /\ StartThread(t, city)
            /\ app_events' = app_events \cup {"simulation_started"}
    /\ stopped' = FALSE
    /\ UNCHANGED << simulation_running, stop_event, restarts_pending >>

\* handle_stop_simulation; join(timeout=5) returns with or without the end
\* of the thread, and the handler then emits
handle_stop_simulation ==
    /\ IF simulation_running
       THEN /\ stop_event' = TRUE
            /\ simulation_running' = FALSE
            /\ traci_loaded' = FALSE
            /\ stopped' = TRUE
       ELSE UNCHANGED << stop_event, simulation_running, traci_loaded,
                         stopped >>
    /\ app_events' = app_events \cup {"simulation_stopped:user_requested"}
    /\ UNCHANGED << simulation_thread, thread_pc, thread_city, CURRENT_CITY,
                    restarts_pending >>

\* handle_restart_simulation up to `CURRENT_CITY = city`, after the return
\* of join(timeout=5)
handle_restart_simulation(city) ==
    /\ IF simulation_running
       THEN /\ stop_event' = TRUE
            /\ simulation_running' = FALSE
            /\ traci_loaded' = FALSE
       ELSE UNCHANGED << stop_event, simulation_running, traci_loaded >>
    /\ CURRENT_CITY' = city
    /\ restarts_pending' = restarts_pending + 1
    /\ stopped' = FALSE
    /\ UNCHANGED << simulation_thread, thread_pc, thread_city, app_events >>

\* handle_restart_simulation after the sleep: start the new thread
RestartStartsThread(t) ==
    /\ restarts_pending > 0
    /\ restarts_pending' = restarts_pending - 1
    /\ StartThread(t, CURRENT_CITY)
    /\ app_events' = app_events \cup {"simulation_restarted"}
    /\ UNCHANGED << simulation_running, stop_event, traci_loaded,
                    CURRENT_CITY, stopped >>

InitApp ==
    /\ simulation_running = FALSE
    /\ stop_event = FALSE
    /\ simulation_thread = 0
    /\ traci_loaded = FALSE
    /\ thread_pc = [t \in Threads |-> "unstarted"]
    /\ thread_city = [t \in Threads |-> None]
    /\ CURRENT_CITY = "losangeles"
    /\ restarts_pending = 0
    /\ app_events = {}
    /\ stopped = FALSE

(***************************************************************************)
(* set_realistic_traffic_light_cycles (app_integrated.py)                  *)
(***************************************************************************)
\* a traffic light not yet in traffic_light_cycles
NoCycle == [phase |-> -1, duration |-> 0, max_duration |-> 0]

\* random.randint(20, 40): the two ends of the range
CycleDurations == {20, 40}

\* ''.join((['a', 'b'] * (state_len // 2 + 1))[:state_len]), positions
\* counted from 1
Pattern(a, b, state_len) ==
    [i \in 1..state_len |-> IF i % 2 = 1 THEN a ELSE b]

\* new_state for a phase
PhaseState(phase, state_len) ==
    IF phase = 0 THEN Pattern("G", "r", state_len)
    ELSE IF phase = 1 THEN Pattern("y", "r", state_len)
    ELSE Pattern("r", "G", state_len)

\* the cycle of one light after the call: created if missing, duration
\* incremented, then (unless traci raised) the phase transition
CycleAfter(cycle, phase_draw, duration_draw, raised) ==
    LET c0 == IF cycle = NoCycle
              THEN [phase |-> phase_draw, duration |-> 0,
                    max_duration |-> duration_draw]
              ELSE cycle
        c1 == [c0 EXCEPT !.duration = @ + 1]
        next_phase == (c1.phase + 1) % 3
    IN IF raised \/ c1.duration < c1.max_duration THEN c1
       ELSE [phase |-> next_phase, duration |-> 0,
             max_duration |-> IF next_phase = 1 THEN 3 ELSE duration_draw]

\* set_realistic_traffic_light_cycles: one call, over every traffic light;
\* traci raises for the lights in `failing` when their state is read
set_realistic_traffic_light_cycles(phase_draws, duration_draws, failing) ==
    /\ traffic_light_cycles' =
          [t \in TlIds |->
              CycleAfter(traffic_light_cycles[t], phase_draws[t],
                         duration_draws[t], t \in failing)]
    /\ tl_signal' =
          [t \in TlIds |->
              IF t \in failing THEN tl_signal[t]
              ELSE PhaseState(traffic_light_cycles'[t].phase,
                              Len(tl_signal[t]))]
    /\ UNCHANGED tl_program

InitCycles == traffic_light_cycles = [t \in TlIds |-> NoCycle]

(***************************************************************************)
(* Specifications                                                          *)
(***************************************************************************)
Init == InitGrid /\ InitNYC /\ InitInt /\ InitLoop /\ InitApp /\ InitCycles

\* the operations of the integration object, called in any order; a
\* TrafficResponse only comes from a successful run_power_flow_analysis
GridUpdate ==
    /\ simulation_time < MaxUpdates
    /\ \E tls \in TrafficLightInputs, n \in VehicleCounts,
          arr \in ArrivalDraws :
          update_traffic_infrastructure(tls, n, arr)
    /\ UNCHANGED << nycVars, intVars, demandVars, loopVars, appVars,
                    traffic_light_cycles >>

GridAnalysis ==
    /\ Len(congestion_history) < MaxAnalyses
    /\ \E raises \in Raises, outcome \in CoarseLoadings :
          run_power_flow_analysis(raises, outcome)
    /\ UNCHANGED << nycVars, intVars, demandVars, loopVars, appVars,
                    traffic_light_cycles >>

GridRespond ==
    /\ responses_applied < MaxResponses
    /\ grid_analysis.status = "success"
    /\ \E failing \in SUBSET TlIds :
          apply_demand_response(grid_analysis.response, failing)
    /\ UNCHANGED << nycVars, intVars, demandVars, loopVars, appVars,
                    traffic_light_cycles >>

NextGrid == GridUpdate \/ GridAnalysis \/ GridRespond

SpecGrid == Init /\ [][NextGrid]_vars

\* run_power_flow_analysis alone, over the fine-grained loadings
ThresholdAnalysis ==
    /\ Len(congestion_history) < MaxHistory
    /\ \E raises \in Raises, outcome \in Loadings :
          run_power_flow_analysis(raises, outcome)
    /\ UNCHANGED << nycVars, intVars, demandVars, loopVars, appVars,
                    traffic_light_cycles >>

NextThreshold == ThresholdAnalysis

SpecThreshold == Init /\ [][NextThreshold]_vars

\* the NYC network and its coupler, their operations called in any order
NYCSetHour ==
    /\ nyc_calls < MaxNYCCalls
    /\ nyc_calls' = nyc_calls + 1
    /\ \E hour \in 0..23 : set_current_hour(hour)
    /\ UNCHANGED << gridVars, sumoVars, intVars, demandVars, loopVars,
                    appVars, traffic_light_cycles >>

NYCAdvanceTime ==
    /\ nyc_calls < MaxNYCCalls
    /\ nyc_calls' = nyc_calls + 1
    /\ advance_time
    /\ UNCHANGED << gridVars, sumoVars, intVars, demandVars, loopVars,
                    appVars, traffic_light_cycles >>

NYCUpdateTrafficLoads ==
    /\ nyc_calls < MaxNYCCalls
    /\ nyc_calls' = nyc_calls + 1
    /\ \E n \in NYCVehicleCounts, states \in NYCTrafficLightStates :
          update_traffic_loads(n, states)
    /\ UNCHANGED << gridVars, sumoVars, intVars, demandVars, loopVars,
                    appVars, traffic_light_cycles >>

NYCSimulate ==
    /\ nyc_calls < MaxNYCCalls
    /\ nyc_calls' = nyc_calls + 1
    /\ simulate_power_flow
    /\ UNCHANGED << gridVars, sumoVars, intVars, demandVars, loopVars,
                    appVars, traffic_light_cycles >>

NYCUpdateFromSumo ==
    /\ nyc_calls < MaxNYCCalls
    /\ nyc_calls' = nyc_calls + 1
    /\ \E density \in NYCDensities, states \in NYCTrafficLightStates :
          update_from_sumo(density, states)
    /\ UNCHANGED << gridVars, sumoVars, intVars, demandVars, loopVars,
                    appVars, traffic_light_cycles >>

NYCOutage ==
    /\ nyc_calls < MaxNYCCalls
    /\ nyc_calls' = nyc_calls + 1
    /\ \E area \in {"Manhattan", "Brooklyn"} : simulate_power_outage(area)
    /\ UNCHANGED << gridVars, sumoVars, intVars, demandVars, loopVars,
                    appVars, traffic_light_cycles >>

NextNYC == \/ NYCSetHour \/ NYCAdvanceTime \/ NYCUpdateTrafficLoads
           \/ NYCSimulate \/ NYCUpdateFromSumo \/ NYCOutage

SpecNYC == Init /\ [][NextNYC]_vars

\* the integration as the loop of app.py drives it: an optimization, then
\* the feedback of its result
IntOptimize ==
    /\ \E failure \in Failures, loading \in IntLoadings :
          run_pypsa_optimization(failure, loading)
    /\ UNCHANGED << gridVars, sumoVars, nycVars, demandVars, loopVars,
                    appVars, traffic_light_cycles >>

IntFeedback ==
    /\ Len(feedback_log) < MaxFeedbacks
    /\ int_call = "run_pypsa_optimization"
    /\ apply_grid_feedback_to_traffic(opt_result)
    /\ UNCHANGED << gridVars, sumoVars, nycVars, demandVars, loopVars,
                    appVars, traffic_light_cycles >>

NextInt == IntOptimize \/ IntFeedback

SpecInt == Init /\ [][NextInt]_vars

\* the integration with its demand updates: update_power_demand in every
\* iteration of the loop of app.py, optimization and feedback in some
otherThanInt ==
    << gridVars, sumoVars, nycVars, loopVars, appVars, traffic_light_cycles >>

DemandUpdate ==
    /\ Len(power_demand_history) < MaxDemandUpdates
    /\ \E tls \in IntTrafficLights, vehicles \in IntVehicles,
          time_step \in IntTimeSteps :
          update_power_demand(tls, vehicles, time_step)
    /\ UNCHANGED otherThanInt

DemandOptimize ==
    /\ int_call = "update_power_demand"
    /\ \E loading \in {LineLoading(20, 29, 0), LineLoading(70, 20, 30),
                        LineLoading(30, 71, 80)} :
          run_pypsa_optimization("none", loading)
    /\ UNCHANGED << demandVars, otherThanInt >>

DemandFeedback ==
    /\ Len(feedback_log) < MaxFeedbacks
    /\ int_call = "run_pypsa_optimization"
    /\ apply_grid_feedback_to_traffic(opt_result)
    /\ UNCHANGED << demandVars, otherThanInt >>

NextDemand == DemandUpdate \/ DemandOptimize \/ DemandFeedback

SpecDemand == Init /\ [][NextDemand]_vars

\* set_realistic_traffic_light_cycles, called once per simulation step
Untracked == {t \in TlIds : traffic_light_cycles[t] = NoCycle}

CyclesCall ==
    /\ \E phase_draws \in (IF Untracked = {} THEN {[t \in TlIds |-> 0]}
                           ELSE [TlIds -> 0..2]),
          duration_draws \in [TlIds -> CycleDurations],
          failing \in SUBSET TlIds :
          /\ \A t \in failing :
                traffic_light_cycles[t].duration < MaxCycleDuration
          /\ set_realistic_traffic_light_cycles(phase_draws, duration_draws,
                                                failing)
    /\ UNCHANGED << gridVars, nycVars, intVars, demandVars, loopVars, appVars >>

NextCycles == CyclesCall

SpecCycles == Init /\ [][NextCycles]_vars

\* the loop of SUMOxPyPSA/app.py around the enhanced integration
LoopStep ==
    /\ step_counter < MaxLoopSteps
    /\ LoopIteration
    /\ UNCHANGED << nycVars, intVars, demandVars, appVars,
                    traffic_light_cycles >>

LoopAnalyse ==
    /\ \E raises \in Raises, outcome \in CoarseLoadings :
          LoopAnalysis(raises, outcome)
    /\ UNCHANGED << nycVars, intVars, demandVars, appVars,
                    traffic_light_cycles >>

LoopApply ==
    /\ \E failing \in SUBSET TlIds : LoopRespond(failing)
    /\ UNCHANGED << nycVars, intVars, demandVars, appVars,
                    traffic_light_cycles >>

LoopEnd ==
    /\ LoopExit
    /\ UNCHANGED << nycVars, intVars, demandVars, appVars,
                    traffic_light_cycles >>

NextLoop == LoopStep \/ LoopAnalyse \/ LoopApply \/ LoopEnd

SpecLoop == Init /\ [][NextLoop]_vars

\* client events and simulation threads of SUMOxPyPSA/app.py, interleaved
otherThanApp ==
    << gridVars, sumoVars, nycVars, intVars, demandVars, loopVars,
       traffic_light_cycles >>

\* a start handler needs a thread to start only when it is not rejected
AppStart ==
    /\ \E city \in Cities :
          \E t \in (IF simulation_running \/ city \notin CITY_CONFIGS
                    THEN Threads ELSE Unstarted) :
             handle_start_simulation(city, t)
    /\ UNCHANGED otherThanApp

AppStop ==
    /\ handle_stop_simulation
    /\ UNCHANGED otherThanApp

AppRestart ==
    /\ restarts_pending < Cardinality(Unstarted)
    /\ \E city \in Cities : handle_restart_simulation(city)
    /\ UNCHANGED otherThanApp

AppRestartStarts ==
    /\ \E t \in Unstarted : RestartStartsThread(t)
    /\ UNCHANGED otherThanApp

AppThread ==
    /\ \E t \in Threads :
          \/ ThreadSetRunning(t)
          \/ ThreadClearStop(t)
          \/ ThreadCloseExisting(t)
          \/ ThreadStartSumo(t)
          \/ \E expected \in BOOLEAN : ThreadLoop(t, expected)
          \/ ThreadCleanup(t)
          \/ ThreadFinish(t)
    /\ UNCHANGED otherThanApp

NextApp == AppStart \/ AppStop \/ AppRestart \/ AppRestartStarts \/ AppThread

SpecApp == Init /\ [][NextApp]_vars

(***************************************************************************)
(* C1  _update_grid_state maps the maximum line loading to exactly one     *)
(* grid state: NORMAL below 0.70, STRESSED from 0.70 and below 0.85,       *)
(* CRITICAL from 0.85 and below 0.95, BLACKOUT from 0.95; the mapping is   *)
(* total and monotone (a higher loading never gives a less severe state).  *)
(* Every entry of congestion_history records the loading and the state     *)
(* chosen for it, and grid_state is the state of the last entry.           *)
(***************************************************************************)
Severity(gs) == CASE gs = "normal"   -> 0
                  [] gs = "stressed" -> 1
                  [] gs = "critical" -> 2
                  [] gs = "blackout" -> 3

C1_ThresholdMapping ==
    /\ \A i \in DOMAIN congestion_history :
          LET e == congestion_history[i]
          IN /\ e.state \in {"normal", "stressed", "critical", "blackout"}
             /\ (e.state = "normal")   <=> (e.loading < 70)
             /\ (e.state = "stressed") <=> (70 <= e.loading /\ e.loading < 85)
             /\ (e.state = "critical") <=> (85 <= e.loading /\ e.loading < 95)
             /\ (e.state = "blackout") <=> (e.loading >= 95)
    /\ \A i, j \in DOMAIN congestion_history :
          congestion_history[i].loading <= congestion_history[j].loading
             => Severity(congestion_history[i].state)
                  <= Severity(congestion_history[j].state)
    /\ congestion_history # << >>
          => grid_state = Last(congestion_history).state

C1_Witness ==
    /\ Len(congestion_history) = 2
    /\ congestion_history[1].loading = 95
    /\ congestion_history[1].state = "blackout"
    /\ congestion_history[2].loading = 70
    /\ grid_state = "stressed"

(***************************************************************************)
(* C2  For every grid state _generate_traffic_response emits a response    *)
(* whose traffic_light_mode is one of normal, eco, emergency,              *)
(* flashing_red: NORMAL gives normal, STRESSED gives eco, CRITICAL gives   *)
(* emergency and BLACKOUT gives flashing_red (not "blackout"); and         *)
(* apply_demand_response handles each of them: normal leaves the lights    *)
(* alone, eco shortens the phases of the known lights, emergency sets the  *)
(* affected intersections to yellow, flashing_red sets every known light   *)
(* to red.                                                                 *)
(***************************************************************************)
ModeFor(gs) == CASE gs = "normal"   -> "normal"
                 [] gs = "stressed" -> "eco"
                 [] gs = "critical" -> "emergency"
                 [] gs = "blackout" -> "flashing_red"

AllSignal(sig, c) == \A i \in DOMAIN sig : sig[i] = c

Shortened(old, new) ==
    /\ DOMAIN new = DOMAIN old
    /\ \A p \in DOMAIN old :
          /\ new[p].state = old[p].state
          /\ 10 * new[p].duration <= 8 * old[p].duration
          /\ 10 * (new[p].duration + 1) > 8 * old[p].duration

SeqElems(s) == {s[i] : i \in DOMAIN s}

\* what a handled response does to SUMO when traci raises for no light
HandledEffect(response) ==
    LET known    == SeqElems(DictKeys(traffic_lights))
        affected == SeqElems(response.affected_intersections)
        mode     == response.traffic_light_mode
    IN /\ mode = "normal" => UNCHANGED sumoVars
       /\ mode = "eco" =>
             /\ UNCHANGED tl_signal
             /\ \A t \in TlIds :
                   IF t \in known THEN Shortened(tl_program[t], tl_program'[t])
                   ELSE tl_program'[t] = tl_program[t]
       /\ mode = "emergency" =>
             /\ UNCHANGED tl_program
             /\ \A t \in TlIds :
                   IF t \in affected THEN AllSignal(tl_signal'[t], "y")
                   ELSE tl_signal'[t] = tl_signal[t]
       /\ mode = "flashing_red" =>
             /\ UNCHANGED tl_program
             /\ \A t \in TlIds :
                   IF t \in known THEN AllSignal(tl_signal'[t], "r")
                   ELSE tl_signal'[t] = tl_signal[t]

C2_ResponseModes ==
    /\ [](grid_analysis.status = "success" =>
            /\ grid_analysis.grid_state = grid_state
            /\ grid_analysis.response.traffic_light_mode = ModeFor(grid_state)
            /\ grid_analysis.response.traffic_light_mode
                  \in {"normal", "eco", "emergency", "flashing_red"})
    /\ [][apply_demand_response(grid_analysis.response, {})
            => HandledEffect(grid_analysis.response)]_vars

\* the mapping as first stated: BLACKOUT gives the mode "blackout"
C2_BlackoutMode ==
    grid_analysis.status = "success" =>
        /\ grid_analysis.response.traffic_light_mode
              \in {"normal", "eco", "emergency", "blackout"}
        /\ grid_state = "blackout" =>
              grid_analysis.response.traffic_light_mode = "blackout"

C2_Witness ==
    /\ last_call = "apply_demand_response"
    /\ grid_state = "blackout"
    /\ grid_analysis.response.traffic_light_mode = "flashing_red"
    /\ Len(traffic_lights) = 2
    /\ \A t \in TlIds : AllSignal(tl_signal[t], "r")

(***************************************************************************)
(* C3  After every update_traffic_infrastructure call each zone load has   *)
(* p_set equal to the zone's base load plus that call's total traffic      *)
(* demand times the zone factor, for any number of successive calls.       *)
(***************************************************************************)
C3_BasePlusThisCall ==
    last_call = "update_traffic_infrastructure" =>
        \A z \in Zones :
            p_set[z] = base_loads[z]
                         + (current_demand.total * zone_factors[z]) \div 100

\* the first call does give base load + traffic-dependent load
C3_FirstCall ==
    (simulation_time = 1 /\ last_call = "update_traffic_infrastructure") =>
        \A z \in Zones :
            p_set[z] = base_loads[z]
                         + (current_demand.total * zone_factors[z]) \div 100

C3_SecondCall ==
    /\ simulation_time = 2
    /\ last_call = "update_traffic_infrastructure"
    /\ \E z \in Zones :
          p_set[z] > base_loads[z]
                       + (current_demand.total * zone_factors[z]) \div 100

(***************************************************************************)
(* C8  Street-light dimming and EV throttling are only flagged:            *)
(* apply_demand_response changes nothing of the integration but the        *)
(* max_power entry of the stations already tracked, and the demand the     *)
(* next update_traffic_infrastructure computes is the demand it would      *)
(* compute had no station a max_power entry.                               *)
(***************************************************************************)
NoLimits(cs) == [sid \in StationIds |-> [cs[sid] EXCEPT !.max_power = -1]]

DemandWithoutLimits(tls, n, arr) ==
    LET st  == simulation_time + 1
        tl  == _calculate_traffic_light_power_realistic(tls, grid_state)
        sl  == _calculate_street_lighting_adaptive(n, grid_state, st)
        ev  == _calculate_ev_charging_smart(grid_state, arr,
                                            NoLimits(charging_stations))
    IN [traffic_lights |-> tl, street_lights |-> sl, ev_charging |-> ev,
        total |-> tl + sl + ev]

C8_OnlyFlagged ==
    /\ [][\A f \in SUBSET TlIds :
            apply_demand_response(grid_analysis.response, f) =>
               /\ UNCHANGED << grid_state, p_set, traffic_lights,
                               congestion_history, current_demand,
                               simulation_time >>
               /\ \A sid \in StationIds :
                     /\ ~charging_stations[sid].tracked
                           => charging_stations'[sid] = charging_stations[sid]
                     /\ [charging_stations'[sid] EXCEPT !.max_power = -1]
                           = [charging_stations[sid] EXCEPT !.max_power = -1]]_vars
    /\ [][\A tls \in TrafficLightInputs, n \in VehicleCounts,
             arr \in ArrivalDraws :
            update_traffic_infrastructure(tls, n, arr) =>
               /\ current_demand' = DemandWithoutLimits(tls, n, arr)
               /\ \A z \in Zones :
                     p_set'[z] = p_set[z]
                        + (DemandWithoutLimits(tls, n, arr).total
                             * zone_factors[z]) \div 100]_vars

C8_Witness ==
    /\ last_call = "update_traffic_infrastructure"
    /\ responses_applied = 1
    /\ \A sid \in StationIds :
          /\ charging_stations[sid].tracked
          /\ charging_stations[sid].max_power = 0
          /\ charging_stations[sid].power_consumption > 0
    /\ current_demand.ev_charging > 0

(***************************************************************************)
(* C4  simulate_power_flow dispatches in merit order: solar first during   *)
(* the hours 6..18, then the gas plants Ravenswood, Astoria, Hudson Avenue *)
(* in that order.  After the call every generator's current_output is      *)
(* between 0 and its capacity_mw, and a gas plant has non-zero output only *)
(* if every gas plant earlier in the order is at its full capacity.        *)
(***************************************************************************)
MeritOrder ==
    << "Ravenswood_PowerPlant", "Astoria_PowerPlant", "Hudson_Avenue_Plant" >>

GasSum == SumSeq([i \in DOMAIN MeritOrder |-> generators[MeritOrder[i]]])

Daytime == 6 <= current_hour /\ current_hour <= 18

AfterPowerFlow == nyc_call \in {"simulate_power_flow", "update_from_sumo"}

C4_MeritOrder ==
    AfterPowerFlow =>
        /\ \A g \in GeneratorNames :
              0 <= generators[g] /\ generators[g] <= capacity_mw[g]
        /\ \A i, j \in DOMAIN MeritOrder :
              (i < j /\ generators[MeritOrder[j]] > 0)
                 => generators[MeritOrder[i]] = capacity_mw[MeritOrder[i]]
        \* solar comes first by day and is left out at night
        /\ Daytime =>
              /\ generators["Solar_Brooklyn"]
                    = Min(SolarTable[current_hour - 5], total_load)
              /\ GasSum = Min(total_load - generators["Solar_Brooklyn"],
                              2480000 + 1310000 + 420000)
              /\ total_generation = generators["Solar_Brooklyn"] + GasSum
        /\ ~Daytime =>
              /\ GasSum = Min(total_load, 2480000 + 1310000 + 420000)
              /\ total_generation = GasSum

C4_Witness ==
    /\ nyc_call = "update_from_sumo"
    /\ current_hour = 12
    /\ generators["Solar_Brooklyn"] = 50000
    /\ generators["Ravenswood_PowerPlant"] = 2480000
    /\ generators["Astoria_PowerPlant"] > 0
    /\ generators["Astoria_PowerPlant"] < 1310000
    /\ generators["Hudson_Avenue_Plant"] = 0

(***************************************************************************)
(* C5  After every simulate_power_flow call total_generation never exceeds *)
(* total_load, and equals it whenever total_load does not exceed the       *)
(* summed capacity of the dispatched plants; for the built network that is *)
(* so at every hour 0..23 and for every traffic and EV load within its     *)
(* clamps, and _check_power_events never emits generation_shortage.        *)
(***************************************************************************)
DispatchedCapacity(hour) ==
    2480000 + 1310000 + 420000
      + (IF 6 <= hour /\ hour <= 18 THEN SolarTable[hour - 5] ELSE 0)

C5_Balance ==
    /\ AfterPowerFlow =>
          /\ total_generation <= total_load
          /\ total_load <= DispatchedCapacity(current_hour)
                => total_generation = total_load
          /\ total_load <= DispatchedCapacity(current_hour)
    /\ "generation_shortage" \notin power_events

C5_Witness ==
    /\ nyc_call = "update_from_sumo"
    /\ current_hour = 20
    /\ \A a \in Areas : ev_charging_loads[a] = ev_capacity_mw[a]
    /\ \A a \in Areas : traffic_light_loads[a] = (tl_base_mw[a] * 28) \div 10
    /\ total_load > 3500000
    /\ total_generation = total_load
    /\ "line_overload" \in power_events

(***************************************************************************)
(* C6  When the power-flow computation of run_pypsa_optimization fails     *)
(* (set_snapshots raises, or lopf and the fallback pf both raise) the call *)
(* returns the constant state {operational True, congestion_level 0.2,     *)
(* overloaded_lines [], total_generation 100, total_load 80} and leaves    *)
(* grid_congestion_level unchanged; apply_grid_feedback_to_traffic on that *)
(* state triggers neither demand response nor outage handling and sets     *)
(* every station's power_available to fast_charge_power x capacity.        *)
(***************************************************************************)
ConstantState ==
    [operational |-> TRUE, congestion_level |-> 20, overloaded_lines |-> << >>,
     total_generation |-> 100, total_load |-> 80]

C6_FailureFallback ==
    /\ [][\A failure \in {"set_snapshots", "lopf_and_pf"},
             loading \in IntLoadings :
            run_pypsa_optimization(failure, loading) =>
               /\ opt_result' = ConstantState
               /\ grid_congestion_level' = grid_congestion_level]_vars
    /\ [][(opt_result = ConstantState
             /\ apply_grid_feedback_to_traffic(opt_result)) =>
               /\ ~Last(feedback_log').demand_response
               /\ ~Last(feedback_log').power_outage
               /\ \A sid \in DOMAIN station_capacity :
                     power_available'[sid] = 150 * station_capacity[sid]]_vars

C6_Witness ==
    /\ int_call = "apply_grid_feedback_to_traffic"
    /\ opt_result = ConstantState
    /\ grid_congestion_level = 100
    /\ Len(feedback_log) = 2
    /\ feedback_log[1].power_outage /\ feedback_log[1].demand_response
    /\ ~feedback_log[2].power_outage /\ ~feedback_log[2].demand_response
    /\ power_available["CS_West_1"] = 1500 /\ power_available["CS_West_5"] = 900

(***************************************************************************)
(* C7  If the solver or the result analysis raises inside                  *)
(* run_power_flow_analysis, the call returns {'status': 'error',           *)
(* 'grid_state': 'normal', 'metrics': {}, 'response': None}, and the       *)
(* stored grid_state and congestion_history are what they were before the  *)
(* call; the simulation loop then applies no demand response and emits no  *)
(* grid_state_change for that analysis.                                    *)
(***************************************************************************)
C7_ErrorPath ==
    /\ [][\A raises \in {"solver", "analysis"}, outcome \in CoarseLoadings :
            LoopAnalysis(raises, outcome) =>
               /\ grid_analysis'.status = "error"
               /\ grid_analysis'.grid_state = "normal"
               /\ grid_analysis'.metrics = << >>
               /\ grid_analysis'.response.traffic_light_mode = None
               /\ grid_state' = grid_state
               /\ congestion_history' = congestion_history
               \* the loop goes on to its next iteration
               /\ loop_pc' = "step"
               /\ grid_state_changes' = grid_state_changes
               /\ UNCHANGED << responses_applied, charging_stations, sumoVars,
                               demand_response_active, last_grid_state,
                               stats_grid_state >>]_vars
    /\ [](loop_pc = "respond" => grid_analysis.status = "success")

C7_Witness ==
    /\ loop_pc = "step"
    /\ step_counter = 2 * PYPSA_UPDATE_FREQUENCY
    /\ last_call = "run_power_flow_analysis"
    /\ grid_analysis.status = "error"
    /\ grid_state = "critical"
    /\ Len(congestion_history) = 1
    /\ Len(grid_state_changes) = 1
    /\ responses_applied = 1
    /\ demand_response_active

(***************************************************************************)
(* C9  The simulation loop runs on a single background thread: for every   *)
(* interleaving of client events with the running loop at most one         *)
(* sumo_simulation loop is executing at any time, and a start_simulation   *)
(* received while a simulation is running starts no second thread.         *)
(***************************************************************************)
InLoop == {t \in Threads : thread_pc[t] = "loop"}

C9_SingleLoop == Cardinality(InLoop) <= 1

\* a start_simulation for a configured city that finds simulation_running
\* set is rejected
C9_StartRejected ==
    [][\A t \in Threads : \A city \in CITY_CONFIGS :
         (simulation_running /\ handle_start_simulation(city, t)) =>
            /\ thread_pc' = thread_pc
            /\ "error:Simulation already running" \in app_events']_vars

\* two loops at once, started by two start_simulation events
C9_TwoLoops ==
    /\ Cardinality(InLoop) = 2
    /\ "simulation_restarted" \notin app_events
    /\ restarts_pending = 0

(***************************************************************************)
(* C10  After a stop_simulation event is handled while a simulation is     *)
(* running, and no start or restart follows, the loop exits, the cleanup   *)
(* of the thread runs, simulation_running is False from then on and a      *)
(* 'simulation_stopped' event is emitted.                                  *)
(***************************************************************************)
C10_StaysStopped ==
    stopped =>
        /\ ~simulation_running
        /\ "simulation_stopped:user_requested" \in app_events
        \* a thread still in its loop is about to leave it
        /\ \A t \in InLoop : stop_event \/ ~traci_loaded

\* the stop request is lost: a thread started before the stop sets the flag
\* again, clears stop_event and runs its loop
C10_RunningAfterStop ==
    /\ stopped
    /\ simulation_running
    /\ ~stop_event
    /\ traci_loaded
    /\ InLoop # {}

(***************************************************************************)
(* C11  In the simulation loop a 'grid_state_change' event is emitted      *)
(* exactly when a successful power-flow analysis reports a grid state      *)
(* different from the last reported one; the event carries the previous    *)
(* state as old_state and the new state as new_state, so the two differ in *)
(* every emitted event.                                                    *)
(***************************************************************************)
C11_OldDiffersFromNew ==
    \A i \in 1..Len(grid_state_changes) :
       grid_state_changes[i].old_state # grid_state_changes[i].new_state

\* the event is emitted exactly on a successful analysis with a new state
C11_EmittedOnChange ==
    [][\A raises \in Raises, outcome \in CoarseLoadings :
         LoopAnalysis(raises, outcome) =>
            (Len(grid_state_changes') = Len(grid_state_changes) + 1
               <=> /\ grid_analysis'.status = "success"
                   /\ grid_analysis'.grid_state # last_grid_state)]_vars

\* an event whose old_state is the new state
C11_SameStates ==
    /\ Len(grid_state_changes) = 1
    /\ grid_state_changes[1].old_state = "critical"
    /\ grid_state_changes[1].new_state = "critical"
    /\ grid_state_changes[1].timestamp = PYPSA_UPDATE_FREQUENCY

(***************************************************************************)
(* C12  After every simulate_power_flow call, for any sequence of          *)
(* current_hour values, total_generation equals the sum of current_output  *)
(* over all generators.                                                    *)
(***************************************************************************)
SumOfOutputs == generators["Solar_Brooklyn"] + GasSum

C12_GenerationIsSumOfOutputs ==
    AfterPowerFlow => total_generation = SumOfOutputs

\* at night the solar plant still shows the output of the last daytime call
C12_StaleSolar ==
    /\ nyc_call = "simulate_power_flow"
    /\ current_hour = 19
    /\ generators["Solar_Brooklyn"] = 12941
    /\ total_generation = total_load
    /\ SumOfOutputs = total_generation + 12941

(***************************************************************************)
(* C13  Eco mode reduces green phase durations by 20%: while the grid      *)
(* stays STRESSED over any number of consecutive analyses, each followed   *)
(* by apply_demand_response, every tracked traffic light's green phases    *)
(* last 80% of their duration in the original program and its non-green    *)
(* phases keep their original duration.                                    *)
(***************************************************************************)
IsGreenPhase(phase) == HasColour(phase.state, "g")

EcoProgram ==
    [p \in DOMAIN InitialProgram |->
        IF IsGreenPhase(InitialProgram[p])
        THEN [InitialProgram[p] EXCEPT !.duration = (@ * 8) \div 10]
        ELSE InitialProgram[p]]

C13_EcoGreenOnly ==
    [][(/\ loop_pc = "respond"
        /\ grid_analysis.response.traffic_light_mode = "eco"
        /\ LoopRespond({}))
          => \A t \in SeqElems(DictKeys(traffic_lights)) :
                tl_program'[t] = EcoProgram]_vars

\* after one eco response the yellow phases are shortened too
C13_YellowShortened ==
    /\ responses_applied = 1
    /\ grid_state = "stressed"
    /\ last_call = "apply_demand_response"
    /\ \A t \in TlIds :
          /\ tl_program[t][1].duration = 24
          /\ tl_program[t][2].duration = 3

\* after two consecutive eco responses the reduction has compounded
C13_Compounded ==
    /\ responses_applied = 2
    /\ grid_state = "stressed"
    /\ last_call = "apply_demand_response"
    /\ Len(grid_state_changes) = 1
    /\ \A t \in TlIds :
          /\ tl_program[t][1].duration = 19
          /\ tl_program[t][2].duration = 2

(***************************************************************************)
(* C14  The power factor applied to traffic-light consumption follows the  *)
(* demand-response levels: 1.0 in NORMAL, 0.8 in STRESSED, 0.6 in CRITICAL *)
(* and 0.0 in BLACKOUT, so for the same traffic-light states the computed  *)
(* traffic-light power never increases as the grid state worsens.          *)
(***************************************************************************)
\* DEMAND_RESPONSE["levels"][...]["factor"], in tenths
LevelFactor(gs) == CASE gs = "normal"   -> 10
                     [] gs = "stressed" -> 8
                     [] gs = "critical" -> 6
                     [] gs = "blackout" -> 0

C14_FactorFollowsLevels ==
    [][\A tls \in TrafficLightInputs, n \in VehicleCounts,
          arr \in ArrivalDraws :
          update_traffic_infrastructure(tls, n, arr) =>
             10 * current_demand'.traffic_lights =
                LevelFactor(grid_state)
                  * _calculate_traffic_light_power_realistic(tls, "normal")]_vars

\* in BLACKOUT the lights are computed at full power
C14_BlackoutFullPower ==
    /\ last_call = "update_traffic_infrastructure"
    /\ grid_state = "blackout"
    /\ Len(traffic_lights) = 2
    /\ \A i \in DOMAIN traffic_lights : traffic_lights[i].dimming = 10
    /\ current_demand.traffic_lights =
          _calculate_traffic_light_power_realistic(LoopTrafficLights, "normal")
    /\ current_demand.traffic_lights >
          _calculate_traffic_light_power_realistic(LoopTrafficLights,
                                                   "critical")

(***************************************************************************)
(* C15  The 'grid_state' value in the result of run_power_flow_analysis    *)
(* equals the integration's stored grid state at the moment the call       *)
(* returns, on the success path and on the error path, for any previous    *)
(* grid state.                                                             *)
(***************************************************************************)
C15_ResultIsStoredState ==
    last_call = "run_power_flow_analysis" =>
        grid_analysis.grid_state = grid_state

\* on the success path the two agree
C15_SuccessAgrees ==
    (last_call = "run_power_flow_analysis"
       /\ grid_analysis.status = "success") =>
        grid_analysis.grid_state = grid_state

\* an analysis that fails while the stored state is CRITICAL reports normal
C15_ErrorReportsNormal ==
    /\ last_call = "run_power_flow_analysis"
    /\ grid_analysis.status = "error"
    /\ grid_analysis.grid_state = "normal"
    /\ grid_state = "critical"
    /\ Len(congestion_history) = 1

(***************************************************************************)
(* C16  Street lighting is adaptive to traffic: after update_from_sumo at  *)
(* night (hour < 6 or hour > 18) each area's street-light load equals      *)
(* base_mw x min(1.5, 1 + density(area) / 2000), so more traffic in an     *)
(* area gives a higher street-light load; by day it is 0.                  *)
(***************************************************************************)
C16_AdaptiveStreetLights ==
    nyc_call = "update_from_sumo" =>
        street_light_loads =
            _update_street_lighting(current_hour, traffic_density_by_area)

\* by day the load is 0 after the update
C16_DarkByDay ==
    (nyc_call = "update_from_sumo" /\ Daytime) =>
        \A a \in Areas : street_light_loads[a] = 0

\* at night the load is base_mw whatever the traffic
C16_BaseAtNight ==
    /\ nyc_call = "update_from_sumo"
    /\ current_hour = 20
    /\ traffic_density_by_area["Manhattan"] = 400
    /\ street_light_loads["Manhattan"] = 5000
    /\ _update_street_lighting(20, traffic_density_by_area)["Manhattan"] = 6000

(***************************************************************************)
(* C17  During high congestion charging is limited to medium: after        *)
(* apply_grid_feedback_to_traffic with congestion_level > 0.7 the charging *)
(* power that the next update_power_demand computes for each station does  *)
(* not exceed that station's power_available (medium_charge_power x        *)
(* capacity); in general a station's computed charging power never exceeds *)
(* its current power_available.                                            *)
(***************************************************************************)
C17_WithinPowerAvailable ==
    int_call = "update_power_demand" =>
        \A sid \in DOMAIN station_capacity :
            ev_power_by_station[sid] <= power_available[sid] * 1000

\* a full station charges above the medium limit set by the feedback
C17_AboveMediumLimit ==
    /\ int_call = "update_power_demand"
    /\ Len(feedback_log) = 1
    /\ feedback_log[1].congestion_level = 80
    /\ power_available["CS_West_1"] = 500
    /\ Cardinality(vehicles_charging["CS_West_1"]) = 10
    /\ ev_power_by_station["CS_West_1"] = 629600

(***************************************************************************)
(* C18  After any sequence of update_from_sumo calls every line's          *)
(* utilization (current_flow / capacity_mw) is at most 100%, so            *)
(* _check_power_events never emits a 'line_trip' event; every event list   *)
(* contains only line_overload and generation_shortage events.             *)
(***************************************************************************)
C18_NoLineTrip ==
    /\ \A l \in LineNames :
          /\ lines[l].capacity_mw > 0
          /\ 0 <= lines[l].current_flow
          /\ lines[l].current_flow <= lines[l].capacity_mw
    /\ "line_trip" \notin power_events
    /\ power_events \subseteq {"line_overload", "generation_shortage"}

\* a tenth of the load is above the capacity of the distribution lines,
\* whose flow is held at the capacity
C18_Witness ==
    /\ nyc_call = "update_from_sumo"
    /\ total_load > 10 * lines["DL_Manhattan_Traffic"].capacity_mw
    /\ lines["DL_Manhattan_Traffic"].current_flow = 150000
    /\ lines["TL_Manhattan_Queens"].current_flow = total_load \div 10
    /\ lines["TL_Manhattan_Queens"].current_flow < 600000
    /\ power_events = {"line_overload"}

(***************************************************************************)
(* C19  set_realistic_traffic_light_cycles produces proper Green ->        *)
(* Yellow -> Red cycles: over any number of calls, for every controlled    *)
(* traffic light and every signal position of its state string, a position *)
(* showing 'G' next changes to 'y' and only then to 'r'; no position goes  *)
(* from 'G' directly to 'r'.                                               *)
(***************************************************************************)
\* the light shows the state this function gave it
ShowsPhase(t) ==
    /\ traffic_light_cycles[t] # NoCycle
    /\ tl_signal[t] = PhaseState(traffic_light_cycles[t].phase,
                                 Len(tl_signal[t]))

C19_GreenThenYellow ==
    [][\A t \in TlIds : \A i \in DOMAIN tl_signal[t] :
         (ShowsPhase(t) /\ tl_signal[t][i] = "G" /\ tl_signal'[t][i] # "G")
            => tl_signal'[t][i] = "y"]_vars

\* the odd positions (counted from 1) do pass through yellow
C19_OddPositionsCycle ==
    [][\A t \in TlIds : \A i \in DOMAIN tl_signal[t] :
         (ShowsPhase(t) /\ i % 2 = 1
            /\ tl_signal[t][i] = "G" /\ tl_signal'[t][i] # "G")
            => tl_signal'[t][i] = "y"]_vars

\* a light that has just gone from its third phase to its first: its even
\* positions went from 'G' to 'r'
C19_GreenToRed ==
    /\ traffic_light_cycles["tl_a"].phase = 0
    /\ traffic_light_cycles["tl_a"].duration = 0
    /\ tl_signal["tl_a"] = <<"G", "r", "G", "r">>

(***************************************************************************)
(* C20  Blackout mode sets all lights to red: after apply_demand_response  *)
(* with traffic_light_mode 'flashing_red' every tracked traffic light has  *)
(* a state string made only of 'r', of the length it had before; if traci  *)
(* raises for one light, all other tracked lights are still set to red.    *)
(***************************************************************************)
Tracked == SeqElems(DictKeys(traffic_lights))

BlackoutResponse ==
    /\ grid_analysis.status = "success"
    /\ grid_analysis.response.traffic_light_mode = "flashing_red"

C20_OthersStillRed ==
    [][\A failing \in SUBSET TlIds :
         (/\ BlackoutResponse
          /\ Cardinality(failing) <= 1
          /\ apply_demand_response(grid_analysis.response, failing))
            => \A t \in Tracked \ failing :
                  /\ Len(tl_signal'[t]) = Len(tl_signal[t])
                  /\ AllSignal(tl_signal'[t], "r")]_vars

\* without a traci error every tracked light is set to red
C20_AllRedWithoutError ==
    [][(BlackoutResponse /\ apply_demand_response(grid_analysis.response, {}))
          => \A t \in Tracked :
                /\ Len(tl_signal'[t]) = Len(tl_signal[t])
                /\ AllSignal(tl_signal'[t], "r")]_vars

\* traci raised for the first tracked light: the second one is still green
C20_LoopAbandoned ==
    /\ last_call = "apply_demand_response"
    /\ BlackoutResponse
    /\ DictKeys(traffic_lights) = << "tl_b", "tl_a" >>
    /\ tl_signal["tl_a"] = <<"G", "G", "r", "r">>
    /\ tl_signal["tl_b"] = <<"G", "G", "r", "r">>

====
